---- MODULE Spec2Model ----
(***************************************************************************)
(* A model of goiter: the Iter wrapper around a pull-based iterating       *)
(* function (Next / Value / Unread and the bulk operations built on them)  *)
(* and the adapters that turn slices, maps, single values and lists of     *)
(* Iterables into iterating functions.                                     *)
(*                                                                         *)
(* Go values (interface{}) are tagged records: IntV(n), SliceV(s), ...     *)
(* A panic is modelled as a result carrying the panic message; the caller  *)
(* may recover and go on using the object, as the tests do.                *)
(***************************************************************************)
EXTENDS Integers, Sequences, FiniteSets, TLC

\* ---------------------------------------------------------------- bounds
\* longest slice handed to an adapter
MaxLen == 3
\* number of distinct element values
NumVals == 2
\* most values held in the pushback buffer at once
MaxBuffer == 2
\* largest cols / rows argument of the Split operations
MaxParam == 2
\* calls made to an iterating function beyond the longest input
MaxExtra == 3
\* most Iterables handed to IterablesFunc
MaxSources == 3

\* deepest nesting of the sequences handed to FlattenArraySlice
MaxDepth == 2
\* most elements of a sequence handed to FlattenArraySlice
MaxWidth == 2

\* most runes (or stray bytes) in the text handed to a reader
MaxRunes == 3
\* most runes in the text handed to a reader that is read by lines
MaxLineRunes == 4
\* most values of an Iter that several handles share
MaxShared == 2
\* most Iters generated from one Iterable
MaxGenerated == 2

\* ------------------------------------------------------------- Go values
NilV == [kind |-> "nil"]
IntV(n) == [kind |-> "int", n |-> n]
SliceV(s) == [kind |-> "slice", elems |-> s]
ArrayV(s) == [kind |-> "array", elems |-> s]
MapV(m) == [kind |-> "map", m |-> m]
KeyValue(k, v) == [kind |-> "KeyValue", Key |-> k, Value |-> v]

Vals == {IntV(n) : n \in 1..NumVals}

\* n values that tell where they come from: the j-th value of source i is the
\* number 10 * i + j. The code never inspects a value, so these stand for any.
ItemsOf(i, n) == [j \in 1..n |-> IntV(10 * i + j)]

RECURSIVE SeqsUpTo(_, _)
SeqsUpTo(S, n) ==
    IF n = 0 THEN {<<>>}
    ELSE LET shorter == SeqsUpTo(S, n - 1)
         IN  shorter \cup {Append(s, x) : s \in {t \in shorter : Len(t) = n - 1}, x \in S}

\* ------------------------------------------------------- error constants
NoPanic == ""
ErrArraySliceIterFuncArg == "ArraySliceIterFunc argument must be an array or slice"
ErrMapIterFuncArg == "MapIterFunc argument must be a map"
ErrNextExhaustedIter == "Iter.Next called on exhausted iterator"
ErrValueExhaustedIter == "Iter.Value called on exhausted iterator"
ErrValueNextFirst == "Iter.Next has to be called before iter.Value"
ErrUnreadExhaustedIter == "Iter.Unread called on exhausted iterator"
ErrColsGreaterThanZero == "cols must be > 0"
ErrRowsGreaterThanZero == "rows must be > 0"

\* ------------------------------------------------------------- variables
VARIABLES
    it,     \* the Iter struct: iter (TRUE while the function is held), nextCalled, value, buffer
    fn,     \* the captured state of the iterating function the Iter was built on
    obs,    \* observer of the calls made so far (no program state)
    last,   \* the latest call made by the user of the Iter and its outcome
    input,  \* the value an adapter was constructed from
    ctor,   \* the adapter constructor that was called, and the panic it raised, if any
    via,    \* how the iterating function is driven: called directly, or through an Iter
    out,    \* the values received with hasMore = true so far, in order
    res,    \* the result of the latest call of the iterating function (or Next/Value cycle)
    calls,  \* the number of such calls made
    iterables,  \* the []Iterable handed to IterablesFunc
    iters,      \* the *Iter objects the Iterables refer to, by identity
    ifn         \* the captured state of the function IterablesFunc returned

iterVars == <<it, fn, obs, last>>
funcVars == <<input, ctor, via, out, res, calls>>
iterablesVars == <<iterables, iters, ifn>>
vars == <<it, fn, obs, last, input, ctor, via, out, res, calls, iterables, iters, ifn>>

\* --------------------------------------------------- iterating functions
NoFunc == [kind |-> "none"]

\* The closure returned by ArraySliceIterFunc: arraySlice, num and idx are its
\* captured variables. A constructor yields the closure, or the panic it raised.
ArraySliceIterFunc(arraySlice) ==
    IF arraySlice.kind \notin {"array", "slice"}
    THEN [panic |-> ErrArraySliceIterFuncArg, fn |-> NoFunc]
    ELSE [panic |-> NoPanic,
          fn |-> [kind |-> "ArraySlice", arraySlice |-> arraySlice,
                  num |-> Len(arraySlice.elems), idx |-> 0]]

\* Mutant: the end test is one short, the last element is never returned.
ArraySliceIterFunc_call_OneShort(f) ==
    IF f.idx + 1 >= f.num
    THEN [val |-> NilV, haveIt |-> FALSE, fn |-> f]
    ELSE [val |-> f.arraySlice.elems[f.idx + 1], haveIt |-> TRUE,
          fn |-> [f EXCEPT !.idx = @ + 1]]

ArraySliceIterFunc_call(f) ==
    IF f.idx = f.num
    THEN [val |-> NilV, haveIt |-> FALSE, fn |-> f]
    ELSE [val |-> f.arraySlice.elems[f.idx + 1], haveIt |-> TRUE,
          fn |-> [f EXCEPT !.idx = @ + 1]]

\* The closure returned by MapIterFunc: mapIter is aMap.MapRange(), here the keys
\* in the order this traversal visits them (Go leaves the order open: any
\* permutation of the keys) and the number of keys visited; done is its flag.
MapIterFunc(aMap, order) ==
    IF aMap.kind # "map"
    THEN [panic |-> ErrMapIterFuncArg, fn |-> NoFunc]
    ELSE [panic |-> NoPanic,
          fn |-> [kind |-> "Map", aMap |-> aMap,
                  mapIter |-> [keys |-> order, pos |-> 0], done |-> FALSE]]

\* Mutant: the map cursor is not advanced.
MapIterFunc_call_Stuck(f) ==
    IF f.done
    THEN [val |-> NilV, haveIt |-> FALSE, fn |-> f]
    ELSE IF f.mapIter.pos = Len(f.mapIter.keys)
    THEN [val |-> NilV, haveIt |-> FALSE, fn |-> [f EXCEPT !.done = TRUE]]
    ELSE LET key == f.mapIter.keys[f.mapIter.pos + 1]
         IN  [val |-> KeyValue(key, f.aMap.m[key]), haveIt |-> TRUE, fn |-> f]

MapIterFunc_call(f) ==
    IF f.done
    THEN [val |-> NilV, haveIt |-> FALSE, fn |-> f]
    ELSE IF f.mapIter.pos = Len(f.mapIter.keys)
    THEN [val |-> NilV, haveIt |-> FALSE, fn |-> [f EXCEPT !.done = TRUE]]
    ELSE LET key == f.mapIter.keys[f.mapIter.pos + 1]
         IN  [val |-> KeyValue(key, f.aMap.m[key]), haveIt |-> TRUE,
              fn |-> [f EXCEPT !.mapIter.pos = @ + 1]]

NoValueIterFunc == [kind |-> "NoValue"]

NoValueIterFunc_call(f) == [val |-> NilV, haveIt |-> FALSE, fn |-> f]

SingleValueIterFunc(aVal) ==
    [panic |-> NoPanic, fn |-> [kind |-> "SingleValue", aVal |-> aVal, done |-> FALSE]]

\* Mutant: done is never set.
SingleValueIterFunc_call_NeverDone(f) ==
    IF f.done
    THEN [val |-> NilV, haveIt |-> FALSE, fn |-> f]
    ELSE [val |-> f.aVal, haveIt |-> TRUE, fn |-> f]

SingleValueIterFunc_call(f) ==
    IF f.done
    THEN [val |-> NilV, haveIt |-> FALSE, fn |-> f]
    ELSE [val |-> f.aVal, haveIt |-> TRUE, fn |-> [f EXCEPT !.done = TRUE]]

\* a call of an iterating function, whichever adapter made it
IterFunc_call(f) ==
    CASE f.kind = "ArraySlice" -> ArraySliceIterFunc_call(f)
      [] f.kind = "Map" -> MapIterFunc_call(f)
      [] f.kind = "NoValue" -> NoValueIterFunc_call(f)
      [] f.kind = "SingleValue" -> SingleValueIterFunc_call(f)

\* ------------------------------------------------------------------ Iter
NewIter(f) == [iter |-> TRUE, nextCalled |-> FALSE, value |-> NilV, buffer |-> <<>>]

\* One invocation of it.iter() by the Iter, observed: obs.fnCalls counts the
\* invocations, obs.fnDone records that hasMore = false was returned,
\* obs.fnLate that an invocation followed it, and obs.fnPushed that an
\* invocation was made while the pushback buffer held a value.
InvokeIter(w) ==
    LET r == IterFunc_call(w.fn)
    IN  [val |-> r.val, haveIt |-> r.haveIt,
         w |-> [w EXCEPT !.fn = r.fn,
                         !.obs.fnCalls = @ + 1,
                         !.obs.fnPushed = @ \/ Len(w.it.buffer) > 0,
                         !.obs.fnLate = @ \/ w.obs.fnDone,
                         !.obs.fnDone = @ \/ ~r.haveIt]]

\* Mutants of Next: no check for exhaustion; the function kept after
\* hasMore = false; the source consulted before the pushback buffer.
Iter_Next_NoExhaustedCheck(w) ==
    IF Len(w.it.buffer) > 0
    THEN LET l == Len(w.it.buffer)
         IN  [w |-> [w EXCEPT !.it.nextCalled = TRUE,
                              !.it.value = w.it.buffer[l],
                              !.it.buffer = SubSeq(w.it.buffer, 1, l - 1)],
              panic |-> NoPanic, ret |-> TRUE]
    ELSE LET r == InvokeIter(w)
         IN  IF r.haveIt
             THEN [w |-> [r.w EXCEPT !.it.nextCalled = TRUE, !.it.value = r.val],
                   panic |-> NoPanic, ret |-> TRUE]
             ELSE [w |-> [r.w EXCEPT !.it.iter = FALSE],
                   panic |-> NoPanic, ret |-> FALSE]

Iter_Next_KeepsFunc(w) ==
    IF ~w.it.iter
    THEN [w |-> w, panic |-> ErrNextExhaustedIter, ret |-> FALSE]
    ELSE IF Len(w.it.buffer) > 0
    THEN LET l == Len(w.it.buffer)
         IN  [w |-> [w EXCEPT !.it.nextCalled = TRUE,
                              !.it.value = w.it.buffer[l],
                              !.it.buffer = SubSeq(w.it.buffer, 1, l - 1)],
              panic |-> NoPanic, ret |-> TRUE]
    ELSE LET r == InvokeIter(w)
         IN  IF r.haveIt
             THEN [w |-> [r.w EXCEPT !.it.nextCalled = TRUE, !.it.value = r.val],
                   panic |-> NoPanic, ret |-> TRUE]
             ELSE [w |-> r.w, panic |-> NoPanic, ret |-> FALSE]

Iter_Next_SourceFirst(w) ==
    IF ~w.it.iter
    THEN [w |-> w, panic |-> ErrNextExhaustedIter, ret |-> FALSE]
    ELSE LET r == InvokeIter(w)
             l == Len(w.it.buffer)
         IN  IF r.haveIt
             THEN [w |-> [r.w EXCEPT !.it.nextCalled = TRUE, !.it.value = r.val],
                   panic |-> NoPanic, ret |-> TRUE]
             ELSE IF l > 0
             THEN [w |-> [r.w EXCEPT !.it.nextCalled = TRUE,
                                     !.it.value = w.it.buffer[l],
                                     !.it.buffer = SubSeq(w.it.buffer, 1, l - 1)],
                   panic |-> NoPanic, ret |-> TRUE]
             ELSE [w |-> [r.w EXCEPT !.it.iter = FALSE],
                   panic |-> NoPanic, ret |-> FALSE]

\* Mutant of Next: a value fetched and not yet read is kept, nothing is fetched.
Iter_Next_KeepsPending(w) ==
    IF ~w.it.iter
    THEN [w |-> w, panic |-> ErrNextExhaustedIter, ret |-> FALSE]
    ELSE IF w.it.nextCalled
    THEN [w |-> w, panic |-> NoPanic, ret |-> TRUE]
    ELSE IF Len(w.it.buffer) > 0
    THEN LET l == Len(w.it.buffer)
         IN  [w |-> [w EXCEPT !.it.nextCalled = TRUE,
                              !.it.value = w.it.buffer[l],
                              !.it.buffer = SubSeq(w.it.buffer, 1, l - 1)],
              panic |-> NoPanic, ret |-> TRUE]
    ELSE LET r == InvokeIter(w)
         IN  IF r.haveIt
             THEN [w |-> [r.w EXCEPT !.it.nextCalled = TRUE, !.it.value = r.val],
                   panic |-> NoPanic, ret |-> TRUE]
             ELSE [w |-> [r.w EXCEPT !.it.iter = FALSE],
                   panic |-> NoPanic, ret |-> FALSE]

Iter_Next(w) ==
    IF ~w.it.iter
    THEN [w |-> w, panic |-> ErrNextExhaustedIter, ret |-> FALSE]
    ELSE IF Len(w.it.buffer) > 0
    THEN LET l == Len(w.it.buffer)
         IN  [w |-> [w EXCEPT !.it.nextCalled = TRUE,
                              !.it.value = w.it.buffer[l],
                              !.it.buffer = SubSeq(w.it.buffer, 1, l - 1)],
              panic |-> NoPanic, ret |-> TRUE]
    ELSE LET r == InvokeIter(w)
         IN  IF r.haveIt
             THEN [w |-> [r.w EXCEPT !.it.nextCalled = TRUE, !.it.value = r.val],
                   panic |-> NoPanic, ret |-> TRUE]
             ELSE [w |-> [r.w EXCEPT !.it.iter = FALSE],
                   panic |-> NoPanic, ret |-> FALSE]

\* Mutants of Value: the readable flag is not cleared; a value waiting in the
\* pushback buffer is read without a Next.
Iter_Value_KeepsFlag(w) ==
    IF ~w.it.iter
    THEN [w |-> w, panic |-> ErrValueExhaustedIter, ret |-> NilV]
    ELSE IF ~w.it.nextCalled
    THEN [w |-> w, panic |-> ErrValueNextFirst, ret |-> NilV]
    ELSE [w |-> w, panic |-> NoPanic, ret |-> w.it.value]

Iter_Value_ReadsBuffer(w) ==
    IF ~w.it.iter
    THEN [w |-> w, panic |-> ErrValueExhaustedIter, ret |-> NilV]
    ELSE IF ~w.it.nextCalled /\ Len(w.it.buffer) > 0
    THEN [w |-> [w EXCEPT !.it.buffer = SubSeq(@, 1, Len(@) - 1)],
          panic |-> NoPanic, ret |-> w.it.buffer[Len(w.it.buffer)]]
    ELSE IF ~w.it.nextCalled
    THEN [w |-> w, panic |-> ErrValueNextFirst, ret |-> NilV]
    ELSE [w |-> [w EXCEPT !.it.nextCalled = FALSE], panic |-> NoPanic, ret |-> w.it.value]

Iter_Value(w) ==
    IF ~w.it.iter
    THEN [w |-> w, panic |-> ErrValueExhaustedIter, ret |-> NilV]
    ELSE IF ~w.it.nextCalled
    THEN [w |-> w, panic |-> ErrValueNextFirst, ret |-> NilV]
    ELSE [w |-> [w EXCEPT !.it.nextCalled = FALSE], panic |-> NoPanic, ret |-> w.it.value]

\* Mutant of Unread: the value is put at the front of the buffer (FIFO).
Iter_Unread_Front(w, val) ==
    IF ~w.it.iter
    THEN [w |-> w, panic |-> ErrUnreadExhaustedIter, ret |-> NilV]
    ELSE [w |-> [w EXCEPT !.it.buffer = <<val>> \o @], panic |-> NoPanic, ret |-> NilV]

\* Mutant of Unread: no check for exhaustion.
Iter_Unread_NoExhaustedCheck(w, val) ==
    [w |-> [w EXCEPT !.it.buffer = Append(@, val)], panic |-> NoPanic, ret |-> NilV]

\* Mutant of Unread: the value pushed back takes the place of the pending
\* value, which goes to the buffer.
Iter_Unread_SwapsPending(w, val) ==
    IF ~w.it.iter
    THEN [w |-> w, panic |-> ErrUnreadExhaustedIter, ret |-> NilV]
    ELSE IF w.it.nextCalled
    THEN [w |-> [w EXCEPT !.it.buffer = Append(@, w.it.value), !.it.value = val],
          panic |-> NoPanic, ret |-> NilV]
    ELSE [w |-> [w EXCEPT !.it.buffer = Append(@, val)], panic |-> NoPanic, ret |-> NilV]

Iter_Unread(w, val) ==
    IF ~w.it.iter
    THEN [w |-> w, panic |-> ErrUnreadExhaustedIter, ret |-> NilV]
    ELSE [w |-> [w EXCEPT !.it.buffer = Append(@, val)], panic |-> NoPanic, ret |-> NilV]

\* ------------------------------------------------- observer of the calls
\* What a user of the Iter can tell from the calls made and their outcomes:
\*   anyNext    some Next has been called
\*   falses     how many times Next has returned false
\*   trueSince  a Next has returned true and no Value has succeeded since
\*   run        the values of the Unread calls made since the latest Next
\*   due        the values the coming Next/Value cycles must return if pushback is LIFO
\*   awaiting   the call that continues the Next/Value alternation
\*   delivered  how many values of the current run have been read back
\*   lifoBad    a cycle did not return the value that was due
ObsInit ==
    [fnCalls |-> 0, fnDone |-> FALSE, fnLate |-> FALSE, fnPushed |-> FALSE,
     anyNext |-> FALSE, falses |-> 0, trueSince |-> FALSE,
     run |-> <<>>, due |-> <<>>, awaiting |-> "Next", delivered |-> 0, lifoBad |-> FALSE]

Reverse(s) == [i \in 1..Len(s) |-> s[Len(s) + 1 - i]]

ObsNext(o, r) ==
    LET newDue == IF o.run # <<>> THEN Reverse(o.run)
                  ELSE IF o.awaiting = "Next" THEN o.due ELSE <<>>
        good == r.panic = NoPanic /\ r.ret
    IN  [o EXCEPT !.anyNext = TRUE,
                  !.falses = IF r.panic = NoPanic /\ ~r.ret THEN @ + 1 ELSE @,
                  !.trueSince = IF good THEN TRUE ELSE @,
                  !.run = <<>>,
                  !.due = newDue,
                  !.awaiting = "Value",
                  !.delivered = IF o.run # <<>> \/ newDue = <<>> THEN 0 ELSE @,
                  !.lifoBad = @ \/ (newDue # <<>> /\ ~good)]

ObsValue(o, r) ==
    LET expected == o.due # <<>> /\ o.awaiting = "Value"
    IN  [o EXCEPT !.trueSince = IF r.panic = NoPanic THEN FALSE ELSE @,
                  !.due = IF expected THEN Tail(@) ELSE <<>>,
                  !.awaiting = "Next",
                  !.delivered = IF expected THEN @ + 1 ELSE 0,
                  !.lifoBad = @ \/ (expected /\ ~(r.panic = NoPanic /\ r.ret = Head(o.due)))]

ObsUnread(o, val, r) ==
    IF r.panic # NoPanic THEN o
    ELSE [o EXCEPT !.run = Append(@, val), !.due = <<>>,
                   !.awaiting = "Next", !.delivered = 0]

\* The calls as the program makes them: the method, then the observer's note of it.
Call_Next(w) ==
    LET r == Iter_Next(w) IN [r EXCEPT !.w.obs = ObsNext(@, r)]

Call_Value(w) ==
    LET r == Iter_Value(w) IN [r EXCEPT !.w.obs = ObsValue(@, r)]

Call_Unread(w, val) ==
    LET r == Iter_Unread(w, val) IN [r EXCEPT !.w.obs = ObsUnread(@, val, r)]

\* ------------------------------------------------------- bulk operations
\* Mutant of NextValue: a value already fetched and not yet read is returned
\* without a further Next.
Iter_NextValue_PendingFirst(w) ==
    IF w.it.iter /\ w.it.nextCalled THEN Call_Value(w)
    ELSE LET n == Call_Next(w)
         IN  IF n.panic # NoPanic THEN [w |-> n.w, panic |-> n.panic, ret |-> NilV]
             ELSE Call_Value(n.w)

Iter_NextValue(w) ==
    LET n == Call_Next(w)
    IN  IF n.panic # NoPanic THEN [w |-> n.w, panic |-> n.panic, ret |-> NilV]
        ELSE Call_Value(n.w)

\* Mutant: the loop ends once the last value has been collected, without the
\* Next that finds the source empty.
RECURSIVE ToSliceLoop_StopsAtLast(_, _)
ToSliceLoop_StopsAtLast(w, slice) ==
    LET n == Call_Next(w)
    IN  IF n.panic # NoPanic THEN [w |-> n.w, panic |-> n.panic, ret |-> <<>>]
        ELSE IF ~n.ret THEN [w |-> n.w, panic |-> NoPanic, ret |-> slice]
        ELSE LET v == Call_Value(n.w)
             IN  IF v.panic # NoPanic THEN [w |-> v.w, panic |-> v.panic, ret |-> <<>>]
                 ELSE IF v.w.it.buffer = <<>> /\ v.w.fn.idx = v.w.fn.num
                 THEN [w |-> v.w, panic |-> NoPanic, ret |-> Append(slice, v.ret)]
                 ELSE ToSliceLoop_StopsAtLast(v.w, Append(slice, v.ret))

\* for it.Next() { slice = append(slice, it.Value()) }
RECURSIVE ToSliceLoop(_, _)
ToSliceLoop(w, slice) ==
    LET n == Call_Next(w)
    IN  IF n.panic # NoPanic THEN [w |-> n.w, panic |-> n.panic, ret |-> <<>>]
        ELSE IF ~n.ret THEN [w |-> n.w, panic |-> NoPanic, ret |-> slice]
        ELSE LET v == Call_Value(n.w)
             IN  IF v.panic # NoPanic THEN [w |-> v.w, panic |-> v.panic, ret |-> <<>>]
                 ELSE ToSliceLoop(v.w, Append(slice, v.ret))

Iter_ToSlice(w) == ToSliceLoop(w, <<>>)

\* Mutant: a last row that is not full is dropped.
RECURSIVE SplitIntoRowsLoop_DropsPartial(_, _, _, _)
SplitIntoRowsLoop_DropsPartial(w, cols, split, row) ==
    LET n == Call_Next(w)
    IN  IF n.panic # NoPanic THEN [w |-> n.w, panic |-> n.panic, ret |-> <<>>]
        ELSE IF ~n.ret
        THEN [w |-> n.w, panic |-> NoPanic, ret |-> split]
        ELSE LET v == Call_Value(n.w)
                 row2 == Append(row, v.ret)
             IN  IF v.panic # NoPanic THEN [w |-> v.w, panic |-> v.panic, ret |-> <<>>]
                 ELSE IF Len(row2) = cols
                 THEN SplitIntoRowsLoop_DropsPartial(v.w, cols, Append(split, row2), <<>>)
                 ELSE SplitIntoRowsLoop_DropsPartial(v.w, cols, split, row2)

\* the loop of SplitIntoRows: row holds idx values, split the rows completed so far
RECURSIVE SplitIntoRowsLoop(_, _, _, _)
SplitIntoRowsLoop(w, cols, split, row) ==
    LET n == Call_Next(w)
    IN  IF n.panic # NoPanic THEN [w |-> n.w, panic |-> n.panic, ret |-> <<>>]
        ELSE IF ~n.ret
        THEN [w |-> n.w, panic |-> NoPanic,
              ret |-> IF Len(row) > 0 THEN Append(split, row) ELSE split]
        ELSE LET v == Call_Value(n.w)
                 row2 == Append(row, v.ret)
             IN  IF v.panic # NoPanic THEN [w |-> v.w, panic |-> v.panic, ret |-> <<>>]
                 ELSE IF Len(row2) = cols
                 THEN SplitIntoRowsLoop(v.w, cols, Append(split, row2), <<>>)
                 ELSE SplitIntoRowsLoop(v.w, cols, split, row2)

Iter_SplitIntoRows(w, cols) ==
    IF cols = 0 THEN [w |-> w, panic |-> ErrColsGreaterThanZero, ret |-> <<>>]
    ELSE SplitIntoRowsLoop(w, cols, <<>>, <<>>)

\* Mutant: the remainder goes to the last rows instead of the first.
RECURSIVE SplitIntoColumnsLoop_RemainderLast(_, _, _, _, _, _, _)
SplitIntoColumnsLoop_RemainderLast(values, numRows, numItems, rmdr, i, start, split) ==
    IF ~(i < numRows) THEN split
    ELSE LET end == start + numItems + (IF numRows - i <= rmdr THEN 1 ELSE 0)
         IN  SplitIntoColumnsLoop_RemainderLast(values, numRows, numItems, rmdr,
                                                i + 1, end,
                                                Append(split, SubSeq(values, start + 1, end)))

\* the loop of SplitIntoColumns over the collected values: i rows done, the next starts at start
RECURSIVE SplitIntoColumnsLoop(_, _, _, _, _, _, _)
SplitIntoColumnsLoop(values, numRows, numItems, rmdr, i, start, split) ==
    IF ~(i < numRows) THEN split
    ELSE LET end == start + numItems + (IF rmdr > 0 THEN 1 ELSE 0)
         IN  SplitIntoColumnsLoop(values, numRows, numItems,
                                  IF rmdr > 0 THEN rmdr - 1 ELSE rmdr,
                                  i + 1, end,
                                  Append(split, SubSeq(values, start + 1, end)))

\* Mutants of SplitIntoColumns: the remainder of the division is dropped; the
\* case of fewer values than rows is not told apart; rows is checked after
\* the values have been collected.
Iter_SplitIntoColumns_RemainderDropped(w, rows) ==
    IF rows = 0 THEN [w |-> w, panic |-> ErrRowsGreaterThanZero, ret |-> <<>>]
    ELSE LET t == Iter_ToSlice(w)
             values == t.ret
             numValues == Len(values)
             few == numValues < rows
             numRows == IF few THEN numValues ELSE rows
             numItems == IF few THEN 1 ELSE numValues \div rows
         IN  IF t.panic # NoPanic THEN t
             ELSE [w |-> t.w, panic |-> NoPanic,
                   ret |-> SplitIntoColumnsLoop(values, numRows, numItems, 0, 0, 0, <<>>)]

Iter_SplitIntoColumns_NoFewBranch(w, rows) ==
    IF rows = 0 THEN [w |-> w, panic |-> ErrRowsGreaterThanZero, ret |-> <<>>]
    ELSE LET t == Iter_ToSlice(w)
             values == t.ret
             numValues == Len(values)
         IN  IF t.panic # NoPanic THEN t
             ELSE [w |-> t.w, panic |-> NoPanic,
                   ret |-> SplitIntoColumnsLoop(values, rows, numValues \div rows,
                                                numValues % rows, 0, 0, <<>>)]

Iter_SplitIntoColumns_LateCheck(w, rows) ==
    LET t == Iter_ToSlice(w)
        values == t.ret
        numValues == Len(values)
        few == numValues < rows
        numRows == IF few THEN numValues ELSE rows
        numItems == IF few THEN 1 ELSE numValues \div rows
        rmdr == IF few THEN 0 ELSE numValues % rows
    IN  IF t.panic # NoPanic THEN t
        ELSE IF rows = 0 THEN [w |-> t.w, panic |-> ErrRowsGreaterThanZero, ret |-> <<>>]
        ELSE [w |-> t.w, panic |-> NoPanic,
              ret |-> SplitIntoColumnsLoop(values, numRows, numItems, rmdr, 0, 0, <<>>)]

Iter_SplitIntoColumns(w, rows) ==
    IF rows = 0 THEN [w |-> w, panic |-> ErrRowsGreaterThanZero, ret |-> <<>>]
    ELSE LET t == Iter_ToSlice(w)
             values == t.ret
             numValues == Len(values)
             few == numValues < rows
             numRows == IF few THEN numValues ELSE rows
             numItems == IF few THEN 1 ELSE numValues \div rows
             rmdr == IF few THEN 0 ELSE numValues % rows
         IN  IF t.panic # NoPanic THEN t
             ELSE [w |-> t.w, panic |-> NoPanic,
                   ret |-> SplitIntoColumnsLoop(values, numRows, numItems, rmdr, 0, 0, <<>>)]

\* ------------------------------------------------ the Iter specification
\* An Iter built by Of(items...) over 0..MaxLen values and then driven by any
\* sequence of calls; Unread is given any of Vals.
Of(items) == ArraySliceIterFunc(SliceV(items)).fn

World == [it |-> it, fn |-> fn, obs |-> obs]

Commit(op, arg, r) ==
    /\ it' = r.w.it
    /\ fn' = r.w.fn
    /\ obs' = r.w.obs
    /\ last' = [op |-> op, arg |-> arg, panic |-> r.panic, ret |-> r.ret]
    /\ UNCHANGED <<funcVars, iterablesVars>>

IterablesIdle ==
    /\ iterables = <<>>
    /\ iters = <<>>
    /\ ifn = NoFunc

NoCall == [val |-> NilV, haveIt |-> FALSE, panic |-> NoPanic]

FuncIdle ==
    /\ input = NilV
    /\ ctor = [name |-> "Of", panic |-> NoPanic]
    /\ via = "Iter"
    /\ out = <<>>
    /\ res = NoCall
    /\ calls = 0

Init ==
    /\ \E n \in 0..MaxLen : fn = Of(ItemsOf(1, n))
    /\ it = NewIter(fn)
    /\ obs = ObsInit
    /\ last = [op |-> "NewIter", arg |-> NilV, panic |-> NoPanic, ret |-> NilV]
    /\ FuncIdle
    /\ IterablesIdle

DoNext == Commit("Next", NilV, Call_Next(World))

DoValue == Commit("Value", NilV, Call_Value(World))

DoUnread ==
    \E val \in Vals :
        /\ Len(it.buffer) < MaxBuffer
        /\ Commit("Unread", val, Call_Unread(World, val))

DoNextValue == Commit("NextValue", NilV, Iter_NextValue(World))

DoToSlice == Commit("ToSlice", NilV, Iter_ToSlice(World))

DoSplitIntoRows ==
    \E cols \in 0..MaxParam : Commit("SplitIntoRows", IntV(cols), Iter_SplitIntoRows(World, cols))

DoSplitIntoColumns ==
    \E rows \in 0..MaxParam :
        Commit("SplitIntoColumns", IntV(rows), Iter_SplitIntoColumns(World, rows))

Next ==
    \/ DoNext
    \/ DoValue
    \/ DoUnread
    \/ DoNextValue
    \/ DoToSlice
    \/ DoSplitIntoRows
    \/ DoSplitIntoColumns

Spec == Init /\ [][Next]_vars

\* ------------------------------------------- claims on the Iter protocol
\* C1: exhaustion is absorbing. Once Next has returned false, every later
\* call of Next, Value or Unread panics (with the message of that method) and
\* the iterator stays exhausted; Next never returns false twice; and the first
\* Next on a fresh Iter over an empty source returns false.
C1_ExhaustionAbsorbing ==
    /\ [](obs.falses <= 1)
    /\ [][/\ obs.falses >= 1 =>
                /\ ~it'.iter
                /\ last'.op = "Next" => last'.panic = ErrNextExhaustedIter
                /\ last'.op = "Value" => last'.panic = ErrValueExhaustedIter
                /\ last'.op = "Unread" => last'.panic = ErrUnreadExhaustedIter
          /\ (last'.op = "Next" /\ ~obs.anyNext /\ fn.num = 0 /\ it.buffer = <<>>) =>
                last'.panic = NoPanic /\ last'.ret = FALSE]_vars

\* an empty Iter has returned false once and the second Next has panicked
C1_Witness ==
    /\ fn.kind = "ArraySlice" /\ fn.num = 0
    /\ obs.falses = 1
    /\ last.op = "Next" /\ last.panic = ErrNextExhaustedIter

\* C2: once the iterating function has returned hasMore = false to the Iter,
\* the Iter never invokes it again, whatever calls follow.
C2_FuncNeverInvokedAfterFalse == ~obs.fnLate

\* the function has returned false and a bulk operation was called afterwards
C2_Witness ==
    /\ obs.fnDone
    /\ last.op \in {"ToSlice", "SplitIntoColumns", "SplitIntoRows", "NextValue"}
    /\ last.panic = ErrNextExhaustedIter

\* C3: Value panics on a fresh Iter (no Next called yet) and on a second read
\* with no Next returning true in between; a successful Value clears the
\* readable flag, so at most one Value succeeds per successful Next.
C3_ValueNeedsNext ==
    [][last'.op = "Value" =>
         /\ (~obs.anyNext \/ ~obs.trueSince) => (last'.panic # NoPanic /\ it' = it)
         /\ (it.iter /\ ~obs.trueSince) => last'.panic = ErrValueNextFirst
         /\ last'.panic = NoPanic => (~it'.nextCalled /\ last'.ret = it.value)]_vars

\* a second Value after a successful Next;Value has panicked
C3_Witness ==
    /\ last.op = "Value" /\ last.panic = ErrValueNextFirst
    /\ obs.anyNext /\ it.iter

\* C4 as stated: on a non-exhausted Iter, Value succeeds exactly when the
\* previous call was a Next that returned true or the pushback buffer is
\* non-empty.
C4_Original ==
    [][last'.op = "Value" =>
         ((last'.panic = NoPanic) <=>
            (it.iter /\ ((last.op = "Next" /\ last.panic = NoPanic /\ last.ret)
                          \/ Len(it.buffer) > 0)))]_vars

\* C4 amended: Value succeeds exactly when the Iter is not exhausted and a Next
\* has returned true since the latest successful Value; a value in the
\* pushback buffer is readable only after a Next has fetched it.
C4_ValueValidIffFetched ==
    [][last'.op = "Value" =>
         ((last'.panic = NoPanic) <=> (it.iter /\ obs.trueSince))]_vars

\* Value has panicked although the pushback buffer held a value
C4_Witness ==
    /\ last.op = "Value" /\ last.panic = ErrValueNextFirst
    /\ Len(it.buffer) > 0

\* C5: pushback is LIFO. After Unread(v1), ..., Unread(vk) with no Next in
\* between, the next k Next/Value cycles return vk, ..., v1, each Next
\* returning true (the observer compares every cycle with the value due).
C5_PushbackLIFO == ~obs.lifoBad

\* two values pushed back in a row have both been read back
C5_Witness ==
    /\ obs.delivered = 2
    /\ last.op \in {"Value", "NextValue"} /\ last.panic = NoPanic

\* C6: Unread is accepted in every non-exhausted state, also on a fresh Iter;
\* while the buffer is non-empty Next pops from it and leaves the iterating
\* function alone (never invoked, cursor unchanged); the source's values are
\* delivered in index order once the buffer is empty.
C6_UnreadBeforeSource ==
    /\ [](~obs.fnPushed)
    /\ [][/\ (last'.op = "Unread" /\ it.iter) =>
                /\ last'.panic = NoPanic
                /\ it'.buffer = Append(it.buffer, last'.arg)
                /\ fn' = fn /\ obs'.fnCalls = obs.fnCalls
          /\ (last'.op = "Next" /\ it.iter /\ Len(it.buffer) > 0) =>
                /\ last'.panic = NoPanic /\ last'.ret
                /\ it'.value = it.buffer[Len(it.buffer)]
                /\ it'.buffer = SubSeq(it.buffer, 1, Len(it.buffer) - 1)
                /\ fn' = fn /\ obs'.fnCalls = obs.fnCalls
          /\ (last'.op = "Next" /\ it.iter /\ it.buffer = <<>> /\ fn.idx < fn.num) =>
                /\ last'.panic = NoPanic /\ last'.ret
                /\ it'.value = fn.arraySlice.elems[fn.idx + 1]
                /\ fn'.idx = fn.idx + 1]_vars

\* a value pushed back before the source was ever consulted has been fetched by Next
C6_Witness ==
    /\ last.op = "Next" /\ last.panic = NoPanic /\ last.ret
    /\ obs.fnCalls = 0 /\ fn.num > 0

\* ------------------------------------------- the adapters' specification
\* An adapter constructor is called on some value; the iterating function it
\* returns is then called again and again, directly or by a loop
\* "for it.Next() { it.Value() }" over NewIter of it.
Keys == Vals

Maps == UNION {[K -> Vals] : K \in SUBSET Keys}

Orders(S) == {o \in [1..Cardinality(S) -> S] : \A i, j \in DOMAIN o : o[i] = o[j] => i = j}

Inputs ==
    {SliceV(s) : s \in SeqsUpTo(Vals, MaxLen)}
        \cup {ArrayV(s) : s \in SeqsUpTo(Vals, MaxLen)}
        \cup {MapV(m) : m \in Maps}
        \cup Vals

Constructed(name, v, order) ==
    CASE name = "ArraySliceIterFunc" -> ArraySliceIterFunc(v)
      [] name = "MapIterFunc" -> MapIterFunc(v, order)
      [] name = "SingleValueIterFunc" -> SingleValueIterFunc(v)

InitFunc ==
    \E name \in {"ArraySliceIterFunc", "MapIterFunc", "SingleValueIterFunc"}, v \in Inputs :
        \E order \in (IF v.kind = "map" THEN Orders(DOMAIN v.m) ELSE {<<>>}) :
            LET c == Constructed(name, v, order)
            IN  /\ input = v
                /\ ctor = [name |-> name, panic |-> c.panic]
                /\ fn = c.fn
                /\ via \in (IF c.panic = NoPanic THEN {"direct", "Iter"} ELSE {"direct"})
                /\ it = NewIter(fn)
                /\ obs = ObsInit
                /\ last = [op |-> "NewIter", arg |-> NilV, panic |-> NoPanic, ret |-> NilV]
                /\ out = <<>>
                /\ res = NoCall
                /\ calls = 0
                /\ IterablesIdle

\* iterFunc() called directly
CallFunc ==
    /\ via = "direct"
    /\ ctor.panic = NoPanic
    /\ calls < MaxLen + MaxExtra
    /\ LET r == IterFunc_call(fn)
       IN  /\ fn' = r.fn
           /\ res' = [val |-> r.val, haveIt |-> r.haveIt, panic |-> NoPanic]
           /\ out' = IF r.haveIt THEN Append(out, r.val) ELSE out
    /\ calls' = calls + 1
    /\ UNCHANGED <<it, obs, last, input, ctor, via, iterablesVars>>

\* one round of the loop over the Iter: Next, and Value when Next returned true
IterCycle ==
    /\ via = "Iter"
    /\ calls < MaxLen + MaxExtra
    /\ LET n == Call_Next(World)
           v == Call_Value(n.w)
           got == n.panic = NoPanic /\ n.ret
           w == IF got THEN v.w ELSE n.w
       IN  /\ it' = w.it
           /\ fn' = w.fn
           /\ obs' = w.obs
           /\ res' = IF got THEN [val |-> v.ret, haveIt |-> v.panic = NoPanic, panic |-> v.panic]
                     ELSE [val |-> NilV, haveIt |-> FALSE, panic |-> n.panic]
           /\ out' = IF got /\ v.panic = NoPanic THEN Append(out, v.ret) ELSE out
    /\ calls' = calls + 1
    /\ UNCHANGED <<last, input, ctor, via, iterablesVars>>

NextFunc ==
    \/ CallFunc
    \/ IterCycle

SpecFunc == InitFunc /\ [][NextFunc]_vars

\* the results the calls made so far must have given, for an adapter that
\* yields the sequence s: the first calls the values of s in order, later ones (nil, false)
YieldsInOrder(s) ==
    /\ out = SubSeq(s, 1, IF calls <= Len(s) THEN calls ELSE Len(s))
    /\ (0 < calls /\ calls <= Len(s)) =>
            res = [val |-> s[calls], haveIt |-> TRUE, panic |-> NoPanic]
    /\ (calls > Len(s) /\ via = "direct") => res = NoCall
    /\ (calls = Len(s) + 1 /\ via = "Iter") => (res = NoCall /\ ~it.iter)
    /\ (calls > Len(s) + 1 /\ via = "Iter") =>
            /\ res = [val |-> NilV, haveIt |-> FALSE, panic |-> ErrNextExhaustedIter]
            /\ ~it.iter

\* C7: for an array or slice of length n ArraySliceIterFunc's function returns
\* (element i, true) in index order on its first n calls and (nil, false) on
\* every later call; an Iter built on it yields those n values in order and is
\* then exhausted for good; any other argument makes the constructor panic.
C7_ArraySliceInOrder ==
    ctor.name = "ArraySliceIterFunc" =>
        IF input.kind \in {"array", "slice"}
        THEN ctor.panic = NoPanic /\ YieldsInOrder(input.elems)
        ELSE ctor.panic = ErrArraySliceIterFuncArg /\ fn = NoFunc

\* a slice of two different elements has been read to its end and called twice more
C7_Witness ==
    /\ ctor.name = "ArraySliceIterFunc" /\ via = "direct"
    /\ input.kind = "slice" /\ Len(input.elems) = 2 /\ input.elems[1] # input.elems[2]
    /\ calls = 4

\* C8: for a map of size n MapIterFunc's function returns exactly n KeyValue
\* pairs with hasMore = true, one per key with that key's value, no key twice
\* and none left out, in any order, and (nil, false) on every later call; a
\* non-map argument makes the constructor panic.
C8_MapEachKeyOnce ==
    (ctor.name = "MapIterFunc" /\ via = "direct") =>
        IF input.kind = "map"
        THEN LET n == Cardinality(DOMAIN input.m)
             IN  /\ ctor.panic = NoPanic
                 /\ Len(out) = (IF calls <= n THEN calls ELSE n)
                 /\ \A i \in 1..Len(out) :
                        /\ out[i].kind = "KeyValue"
                        /\ out[i].Key \in DOMAIN input.m
                        /\ out[i].Value = input.m[out[i].Key]
                 /\ \A i, j \in 1..Len(out) : out[i].Key = out[j].Key => i = j
                 /\ calls >= n => {out[i].Key : i \in 1..Len(out)} = DOMAIN input.m
                 /\ (0 < calls /\ calls <= n) =>
                        res = [val |-> out[calls], haveIt |-> TRUE, panic |-> NoPanic]
                 /\ calls > n => res = NoCall
        ELSE ctor.panic = ErrMapIterFuncArg /\ fn = NoFunc

\* a map of two keys has been traversed and the function called twice more
C8_Witness ==
    /\ ctor.name = "MapIterFunc" /\ via = "direct"
    /\ input.kind = "map" /\ Cardinality(DOMAIN input.m) = 2
    /\ calls = 4 /\ Len(out) = 2

\* C9: SingleValueIterFunc's function returns (the wrapped value, true) on its
\* first call and (nil, false) on every later call; an array, slice or map is
\* returned whole, as that one value.
C9_SingleValueOnce ==
    ctor.name = "SingleValueIterFunc" =>
        /\ ctor.panic = NoPanic
        /\ YieldsInOrder(<<input>>)

\* a slice of two elements was wrapped, returned whole, and the function called again
C9_Witness ==
    /\ ctor.name = "SingleValueIterFunc" /\ via = "direct"
    /\ input.kind = "slice" /\ Len(input.elems) = 2
    /\ calls = 3 /\ out = <<input>>

\* --------------------------------------- IterablesFunc (src/iter.go:39-74)
\* The Iter of src/iter.go: the fields iter, nextCalled and value, no pushback
\* buffer. An object o pairs the struct with the closure it holds.
ErrValueExhaustedIter0 == "Iter.Value called on exhausted iteraror"

NewIter0(f) == [it |-> [iter |-> TRUE, nextCalled |-> FALSE, value |-> NilV], fn |-> f]

Iter0_Next(o) ==
    IF ~o.it.iter
    THEN [o |-> o, panic |-> ErrNextExhaustedIter, ret |-> FALSE]
    ELSE LET r == IterFunc_call(o.fn)
         IN  IF r.haveIt
             THEN [o |-> [it |-> [o.it EXCEPT !.nextCalled = TRUE, !.value = r.val], fn |-> r.fn],
                   panic |-> NoPanic, ret |-> TRUE]
             ELSE [o |-> [it |-> [o.it EXCEPT !.iter = FALSE], fn |-> r.fn],
                   panic |-> NoPanic, ret |-> FALSE]

Iter0_Value(o) ==
    IF ~o.it.iter
    THEN [o |-> o, panic |-> ErrValueExhaustedIter0, ret |-> NilV]
    ELSE IF ~o.it.nextCalled
    THEN [o |-> o, panic |-> ErrValueNextFirst, ret |-> NilV]
    ELSE [o |-> [o EXCEPT !.it.nextCalled = FALSE], panic |-> NoPanic, ret |-> o.it.value]

\* An Iterable is the nil interface, or a *Iter: a nil pointer or the object id.
\* (*Iter).Iter() returns its receiver.
NoIter == 0
NilIterable == [kind |-> "nil"]
NilIterPtr == [kind |-> "nilIter"]
IterPtr(id) == [kind |-> "Iter", id |-> id]

Iter0_Iter(theIterable) == IF theIterable.kind = "Iter" THEN theIterable.id ELSE NoIter

IterablesFunc(list) ==
    [kind |-> "Iterables", iterables |-> list, num |-> Len(list), idx |-> 0,
     theIterable |-> NilIterable, theIter |-> NoIter]

\* the loop "for (theIter == nil) && (idx < num)"; pool holds the *Iter objects
RECURSIVE IterablesFunc_search(_, _)
IterablesFunc_search(c, pool) ==
    IF ~(c.theIter = NoIter /\ c.idx < c.num)
    THEN [val |-> NilV, haveIt |-> FALSE, panic |-> NoPanic, c |-> c, pool |-> pool]
    ELSE LET theIterable == c.iterables[c.idx + 1]
             c1 == [c EXCEPT !.theIterable = theIterable, !.idx = @ + 1]
             theIter == Iter0_Iter(theIterable)
             c2 == [c1 EXCEPT !.theIter = theIter]
         IN  IF theIterable = NilIterable \/ theIter = NoIter
             THEN IterablesFunc_search([c1 EXCEPT !.theIter = NoIter], pool)
             ELSE LET n == Iter0_Next(pool[theIter])
                      v == Iter0_Value(n.o)
                  IN  IF n.panic # NoPanic
                      THEN [val |-> NilV, haveIt |-> FALSE, panic |-> n.panic,
                            c |-> c2, pool |-> pool]
                      ELSE IF n.ret
                      THEN [val |-> v.ret, haveIt |-> v.panic = NoPanic, panic |-> v.panic,
                            c |-> c2, pool |-> [pool EXCEPT ![theIter] = v.o]]
                      ELSE IterablesFunc_search([c2 EXCEPT !.theIter = NoIter],
                                                [pool EXCEPT ![theIter] = n.o])

\* Mutant: "if" where the code has "for": a call looks at one more source at
\* most, and reports (nil, false) when that source has nothing to give.
IterablesFunc_searchOnce(c, pool) ==
    IF ~(c.theIter = NoIter /\ c.idx < c.num)
    THEN [val |-> NilV, haveIt |-> FALSE, panic |-> NoPanic, c |-> c, pool |-> pool]
    ELSE LET theIterable == c.iterables[c.idx + 1]
             c1 == [c EXCEPT !.theIterable = theIterable, !.idx = @ + 1, !.theIter = NoIter]
             theIter == Iter0_Iter(theIterable)
             n == Iter0_Next(pool[theIter])
             v == Iter0_Value(n.o)
         IN  IF theIterable = NilIterable \/ theIter = NoIter
             THEN [val |-> NilV, haveIt |-> FALSE, panic |-> NoPanic, c |-> c1, pool |-> pool]
             ELSE IF n.panic # NoPanic
             THEN [val |-> NilV, haveIt |-> FALSE, panic |-> n.panic,
                   c |-> [c1 EXCEPT !.theIter = theIter], pool |-> pool]
             ELSE IF n.ret
             THEN [val |-> v.ret, haveIt |-> v.panic = NoPanic, panic |-> v.panic,
                   c |-> [c1 EXCEPT !.theIter = theIter],
                   pool |-> [pool EXCEPT ![theIter] = v.o]]
             ELSE [val |-> NilV, haveIt |-> FALSE, panic |-> NoPanic,
                   c |-> c1, pool |-> [pool EXCEPT ![theIter] = n.o]]

IterablesFunc_call_IfForFor(c, pool) ==
    IF c.theIter = NoIter THEN IterablesFunc_searchOnce(c, pool)
    ELSE LET n == Iter0_Next(pool[c.theIter])
             v == Iter0_Value(n.o)
         IN  IF n.panic # NoPanic
             THEN [val |-> NilV, haveIt |-> FALSE, panic |-> n.panic, c |-> c, pool |-> pool]
             ELSE IF n.ret
             THEN [val |-> v.ret, haveIt |-> v.panic = NoPanic, panic |-> v.panic,
                   c |-> c, pool |-> [pool EXCEPT ![c.theIter] = v.o]]
             ELSE IterablesFunc_searchOnce([c EXCEPT !.theIter = NoIter],
                                           [pool EXCEPT ![c.theIter] = n.o])

\* one call of the function IterablesFunc returned
IterablesFunc_call(c, pool) ==
    IF c.theIter = NoIter THEN IterablesFunc_search(c, pool)
    ELSE LET n == Iter0_Next(pool[c.theIter])
             v == Iter0_Value(n.o)
         IN  IF n.panic # NoPanic
             THEN [val |-> NilV, haveIt |-> FALSE, panic |-> n.panic, c |-> c, pool |-> pool]
             ELSE IF n.ret
             THEN [val |-> v.ret, haveIt |-> v.panic = NoPanic, panic |-> v.panic,
                   c |-> c, pool |-> [pool EXCEPT ![c.theIter] = v.o]]
             ELSE IterablesFunc_search([c EXCEPT !.theIter = NoIter],
                                       [pool EXCEPT ![c.theIter] = n.o])

\* The sources: nil, a nil *Iter, or Of(...) of 0..MaxLen values, source i
\* holding ItemsOf(i, n).
Shapes == {NilIterable, NilIterPtr} \cup {[kind |-> "Iter", len |-> n] : n \in 0..MaxLen}

RECURSIVE Concat(_)
Concat(ss) == IF ss = <<>> THEN <<>> ELSE Head(ss) \o Concat(Tail(ss))

\* what source i gives when drained: the elements its Of(...) was built on
SourceValues(i) ==
    IF iterables[i].kind = "Iter" THEN iters[iterables[i].id].fn.arraySlice.elems ELSE <<>>

AllValues == Concat([i \in 1..Len(iterables) |-> SourceValues(i)])

InitIterables ==
    /\ \E shapes \in SeqsUpTo(Shapes, MaxSources) :
          /\ iterables = [i \in 1..Len(shapes) |->
                            IF shapes[i].kind = "Iter" THEN IterPtr(i) ELSE shapes[i]]
          /\ iters = [i \in {k \in 1..Len(shapes) : shapes[k].kind = "Iter"} |->
                        NewIter0(Of(ItemsOf(i, shapes[i].len)))]
    /\ ifn = IterablesFunc(iterables)
    /\ it = NewIter(NoFunc) /\ fn = NoFunc /\ obs = ObsInit
    /\ last = [op |-> "NewIter", arg |-> NilV, panic |-> NoPanic, ret |-> NilV]
    /\ input = NilV
    /\ ctor = [name |-> "IterablesFunc", panic |-> NoPanic]
    /\ via = "direct"
    /\ out = <<>> /\ res = NoCall /\ calls = 0

CallIterables ==
    /\ calls < Len(AllValues) + MaxExtra
    /\ LET r == IterablesFunc_call(ifn, iters)
       IN  /\ ifn' = r.c
           /\ iters' = r.pool
           /\ res' = [val |-> r.val, haveIt |-> r.haveIt, panic |-> r.panic]
           /\ out' = IF r.haveIt THEN Append(out, r.val) ELSE out
    /\ calls' = calls + 1
    /\ UNCHANGED <<iterVars, input, ctor, via, iterables>>

NextIterables == CallIterables

SpecIterables == InitIterables /\ [][NextIterables]_vars

\* C10: IterablesFunc yields the concatenation of the sources' value sequences
\* in list order and then (nil, false) on every later call; nil sources and
\* sources whose Iter is nil or empty give nothing; a source is drained
\* completely before any value is taken from a later one.
C10_IterablesConcatenate ==
    /\ YieldsInOrder(AllValues)
    /\ \A i, j \in DOMAIN iters :
          (i < j /\ iters[j].fn.idx > 0) => ~iters[i].it.iter

\* two non-empty sources with a nil one in the list were read to the end, and
\* the function was called twice more
C10_Witness ==
    /\ Len(iterables) = 3
    /\ \E i \in 1..3 : iterables[i] = NilIterable
    /\ Cardinality({i \in DOMAIN iters : iters[i].fn.num > 0}) = 2
    /\ out = AllValues
    /\ calls = Len(out) + 2

\* ----------------------- ElementsIterFunc / OfElements (src/iter.go:135-218)
\* Further values: a nil pointer that is no *Iter, such as (*int)(nil), and a
\* non-nil pointer. reflect.ValueOf(nil) is the zero Value, here NilV.
NilPtrV == [kind |-> "nilptr"]
PtrV(n) == [kind |-> "ptr", to |-> n]

ErrReflectInterfaceZero == "reflect: call of reflect.Value.Interface on zero Value"

\* Mutant: no case for Iterable, as in the later version of ElementsIterFunc.
ElementsIterFunc_NoIterable(item, order) ==
    CASE item.kind \in {"array", "slice"} -> ArraySliceIterFunc(item)
      [] item.kind = "map" -> MapIterFunc(item, order)
      [] OTHER ->
            IF item.kind = "nil"
            THEN [panic |-> ErrReflectInterfaceZero, fn |-> NoFunc]
            ELSE IF item.kind \in {"nilptr", "nilIter"}
            THEN [panic |-> NoPanic, fn |-> NoValueIterFunc]
            ELSE SingleValueIterFunc(item)

\* switch item.Kind(); in the default case item.Interface() is asserted to be an
\* Iterable (a *Iter is one, a nil *Iter too) before the nil pointer test.
ElementsIterFunc(item, order) ==
    CASE item.kind \in {"array", "slice"} -> ArraySliceIterFunc(item)
      [] item.kind = "map" -> MapIterFunc(item, order)
      [] OTHER ->
            IF item.kind = "nil"
            THEN [panic |-> ErrReflectInterfaceZero, fn |-> NoFunc]
            ELSE IF item.kind \in {"Iter", "nilIter"}
            THEN [panic |-> NoPanic, fn |-> IterablesFunc(<<item>>)]
            ELSE IF item.kind \in {"nilptr", "nilIter"}
            THEN [panic |-> NoPanic, fn |-> NoValueIterFunc]
            ELSE SingleValueIterFunc(item)

\* a constructor of an Iter yields the object, or the panic raised
OfElements(item, order) ==
    IF item = NilV
    THEN [panic |-> NoPanic, o |-> NewIter0(NoValueIterFunc)]
    ELSE LET c == ElementsIterFunc(item, order)
         IN  [panic |-> c.panic, o |-> NewIter0(c.fn)]

\* A call of an iterating function that may hold *Iter objects of the pool:
\* the outcome r of the function of IterablesFunc, or of one of the others,
\* with the closure and the pool as the call leaves them.
IterablesFunc_outcome(r) ==
    [val |-> r.val, haveIt |-> r.haveIt, panic |-> r.panic, fn |-> r.c, pool |-> r.pool]

IterFunc_outcome(r, pool) ==
    [val |-> r.val, haveIt |-> r.haveIt, panic |-> NoPanic, fn |-> r.fn, pool |-> pool]

IterFunc0_call(f, pool) ==
    IF f.kind = "Iterables"
    THEN IterablesFunc_outcome(IterablesFunc_call(f, pool))
    ELSE IterFunc_outcome(IterFunc_call(f), pool)

\* Iter.Next of src/iter.go on an Iter whose function may hold *Iter objects;
\* r is the outcome of it.iter()
Iter0_NextGot(o, r) ==
    IF r.panic # NoPanic
    THEN [o |-> [o EXCEPT !.fn = r.fn], pool |-> r.pool, panic |-> r.panic, ret |-> FALSE]
    ELSE IF r.haveIt
    THEN [o |-> [it |-> [o.it EXCEPT !.nextCalled = TRUE, !.value = r.val], fn |-> r.fn],
          pool |-> r.pool, panic |-> NoPanic, ret |-> TRUE]
    ELSE [o |-> [it |-> [o.it EXCEPT !.iter = FALSE], fn |-> r.fn],
          pool |-> r.pool, panic |-> NoPanic, ret |-> FALSE]

Iter0_NextOver(o, pool) ==
    IF ~o.it.iter
    THEN [o |-> o, pool |-> pool, panic |-> ErrNextExhaustedIter, ret |-> FALSE]
    ELSE Iter0_NextGot(o, IterFunc0_call(o.fn, pool))

\* The items: those of Inputs, pointers, the zero Value, and a *Iter, nil or
\* Of(...) of 0..MaxLen values (object 1 of the pool).
ElementInputs ==
    Inputs \cup {NilV, NilPtrV, NilIterPtr} \cup {PtrV(n) : n \in 1..NumVals}
        \cup {[kind |-> "Iter", len |-> n] : n \in 0..MaxLen}

InitElements ==
    \E name \in {"ElementsIterFunc", "OfElements"}, v \in ElementInputs :
        \E order \in (IF v.kind = "map" THEN Orders(DOMAIN v.m) ELSE {<<>>}) :
            LET item == IF v.kind = "Iter" THEN IterPtr(1) ELSE v
                c == IF name = "OfElements"
                     THEN OfElements(item, order)
                     ELSE LET e == ElementsIterFunc(item, order)
                          IN  [panic |-> e.panic, o |-> NewIter0(e.fn)]
            IN  /\ input = item
                /\ iters = [i \in (IF v.kind = "Iter" THEN {1} ELSE {}) |->
                               NewIter0(Of(ItemsOf(1, v.len)))]
                /\ ctor = [name |-> name, panic |-> c.panic]
                /\ via = (IF name = "OfElements" THEN "Iter" ELSE "direct")
                /\ fn = c.o.fn
                /\ it = c.o.it
                /\ obs = ObsInit
                /\ last = [op |-> "NewIter", arg |-> NilV, panic |-> NoPanic, ret |-> NilV]
                /\ out = <<>>
                /\ res = NoCall
                /\ calls = 0
                /\ iterables = <<>>
                /\ ifn = NoFunc

\* the function ElementsIterFunc returned, called directly; r is its outcome
Called(r) ==
    /\ fn' = r.fn
    /\ iters' = r.pool
    /\ res' = [val |-> r.val, haveIt |-> r.haveIt, panic |-> r.panic]
    /\ out' = IF r.haveIt THEN Append(out, r.val) ELSE out

CallElements ==
    /\ via = "direct"
    /\ ctor.panic = NoPanic
    /\ calls < MaxLen + MaxExtra
    /\ Called(IterFunc0_call(fn, iters))
    /\ calls' = calls + 1
    /\ UNCHANGED <<it, obs, last, input, ctor, via, iterables, ifn>>

\* one round of "for it.Next() { it.Value() }" over the Iter OfElements
\* returned; n is the outcome of Next
Cycled(n) ==
    LET v == Iter0_Value(n.o)
        got == n.panic = NoPanic /\ n.ret
        o == IF got THEN v.o ELSE n.o
    IN  /\ it' = o.it
        /\ fn' = o.fn
        /\ iters' = n.pool
        /\ res' = IF got THEN [val |-> v.ret, haveIt |-> v.panic = NoPanic, panic |-> v.panic]
                  ELSE [val |-> NilV, haveIt |-> FALSE, panic |-> n.panic]
        /\ out' = IF got /\ v.panic = NoPanic THEN Append(out, v.ret) ELSE out

ElementsCycle ==
    /\ via = "Iter"
    /\ ctor.panic = NoPanic
    /\ calls < MaxLen + MaxExtra
    /\ Cycled(Iter0_NextOver([it |-> it, fn |-> fn], iters))
    /\ calls' = calls + 1
    /\ UNCHANGED <<obs, last, input, ctor, via, iterables, ifn>>

NextElements ==
    \/ CallElements
    \/ ElementsCycle

SpecElements == InitElements /\ [][NextElements]_vars

\* C11: ElementsIterFunc and OfElements choose the adapter from the shape of
\* the item, once, at construction: an array or slice yields its elements in
\* index order, a map one KeyValue per key, a nil pointer (and an untyped nil
\* given to OfElements) nothing, an Iterable the values of its Iter, and any
\* other value is yielded once, whole; then (nil, false) for good.
C11_ElementsDispatch ==
    (input # NilV \/ ctor.name = "OfElements") =>
        /\ ctor.panic = NoPanic
        /\ CASE input.kind \in {"array", "slice"} ->
                    fn.kind = "ArraySlice" /\ YieldsInOrder(input.elems)
             [] input.kind = "map" ->
                    /\ fn.kind = "Map"
                    /\ YieldsInOrder([i \in 1..Len(fn.mapIter.keys) |->
                            KeyValue(fn.mapIter.keys[i], input.m[fn.mapIter.keys[i]])])
                    /\ {fn.mapIter.keys[i] : i \in 1..Len(fn.mapIter.keys)} = DOMAIN input.m
                    /\ Len(fn.mapIter.keys) = Cardinality(DOMAIN input.m)
             [] input.kind \in {"nil", "nilptr"} ->
                    fn.kind = "NoValue" /\ YieldsInOrder(<<>>)
             [] input.kind = "nilIter" ->
                    fn.kind = "Iterables" /\ YieldsInOrder(<<>>)
             [] input.kind = "Iter" ->
                    /\ fn.kind = "Iterables"
                    /\ YieldsInOrder(iters[input.id].fn.arraySlice.elems)
             [] OTHER ->
                    fn.kind = "SingleValue" /\ YieldsInOrder(<<input>>)

\* the function made for a *Iter over two values has given both and then (nil, false)
C11_Witness ==
    /\ ctor.name = "ElementsIterFunc"
    /\ input.kind = "Iter" /\ out = ItemsOf(1, 2)
    /\ calls = 3 /\ res = NoCall

\* --------------------------------------- claims on the bulk operations
\* The sequence the Iter would yield from here on: the pushback buffer, last
\* pushed first, then what is left of the source. (A value fetched by Next and
\* not read is not among them: the next Next replaces it.)
Remaining == Reverse(it.buffer) \o SubSeq(fn.arraySlice.elems, fn.idx + 1, fn.num)

Lens(groups) == [i \in 1..Len(groups) |-> Len(groups[i])]

\* C12: SplitIntoRows(cols), cols > 0, on an Iter that would yield s of length
\* n returns ceil(n / cols) rows whose concatenation is s; every row but the
\* last has cols elements, the last between 1 and cols; no rows when n = 0.
C12_SplitIntoRows ==
    [][(last'.op = "SplitIntoRows" /\ last'.arg.n > 0 /\ it.iter) =>
          LET s == Remaining
              n == Len(s)
              cols == last'.arg.n
              split == last'.ret
          IN  /\ last'.panic = NoPanic
              /\ Len(split) = (n + cols - 1) \div cols
              /\ Concat(split) = s
              /\ \A i \in 1..Len(split) :
                    /\ i < Len(split) => Len(split[i]) = cols
                    /\ 1 <= Len(split[i]) /\ Len(split[i]) <= cols
              /\ n = 0 => split = <<>>]_vars

\* three or more values were split into rows of two, the last row partial
C12_Witness ==
    /\ last.op = "SplitIntoRows" /\ last.arg = IntV(2) /\ last.panic = NoPanic
    /\ Len(last.ret) >= 2 /\ Len(last.ret[Len(last.ret)]) = 1

Transpose(split) ==
    [i \in 1..(IF split = <<>> THEN 0 ELSE Len(split[1])) |->
        [j \in 1..Cardinality({r \in 1..Len(split) : Len(split[r]) >= i}) |-> split[j][i]]]

C16_ZeroParamPanics ==
    [][/\ (last'.op = "SplitIntoRows" /\ last'.arg.n = 0) =>
            /\ last'.panic = ErrColsGreaterThanZero
            /\ it' = it /\ fn' = fn /\ obs'.fnCalls = obs.fnCalls
       /\ (last'.op = "SplitIntoColumns" /\ last'.arg.n = 0) =>
            /\ last'.panic = ErrRowsGreaterThanZero
            /\ it' = it /\ fn' = fn /\ obs'.fnCalls = obs.fnCalls]_vars

\* SplitIntoColumns(0) has panicked on an exhausted Iter
C16_Witness ==
    /\ last.op = "SplitIntoColumns" /\ last.arg = IntV(0)
    /\ last.panic = ErrRowsGreaterThanZero
    /\ ~it.iter

\* C17: ToSlice, SplitIntoRows(cols > 0) and SplitIntoColumns(rows > 0) leave
\* the Iter exhausted when they return, whatever the number of values, so that
\* a following Next panics; called on an exhausted Iter they panic.
C17_BulkOpsExhaust ==
    [][/\ (/\ last'.op \in {"ToSlice", "SplitIntoRows", "SplitIntoColumns"}
           /\ last'.op # "ToSlice" => last'.arg.n > 0) =>
            /\ ~it'.iter
            /\ Iter_Next([it |-> it', fn |-> fn', obs |-> obs']).panic = ErrNextExhaustedIter
            /\ it.iter => last'.panic = NoPanic
            /\ ~it.iter => last'.panic = ErrNextExhaustedIter
       /\ (/\ last.op \in {"ToSlice", "SplitIntoRows", "SplitIntoColumns"}
           /\ last.panic = NoPanic
           /\ last'.op = "Next") => last'.panic = ErrNextExhaustedIter]_vars

\* SplitIntoRows(2) has returned one full row of two values, an exact multiple
\* of the parameter, and has left the Iter exhausted
C17_Witness ==
    /\ last.op = "SplitIntoRows" /\ last.arg = IntV(2) /\ last.panic = NoPanic
    /\ Len(last.ret) = 1 /\ Len(last.ret[1]) = 2
    /\ ~it.iter

\* ------------------------- FlattenArraySlice (src/unnamed/part_004:251-283)
ErrFlattenArraySliceArg == "FlattenArraySlice argument must be an array or slice"

\* The recursive function f with the loop over currentArraySlice from index i;
\* result is the slice f appends to. reflect.ValueOf of a nil element is the
\* zero Value: its Kind is neither Array nor Slice, and its Interface() panics.
RECURSIVE FlattenArraySlice_f(_, _, _)
FlattenArraySlice_f(currentArraySlice, i, result) ==
    IF ~(i < Len(currentArraySlice.elems))
    THEN [panic |-> NoPanic, result |-> result]
    ELSE LET val == currentArraySlice.elems[i + 1]
         IN  IF val.kind \in {"array", "slice"}
             THEN LET sub == FlattenArraySlice_f(val, 0, result)
                  IN  IF sub.panic # NoPanic THEN sub
                      ELSE FlattenArraySlice_f(currentArraySlice, i + 1, sub.result)
             ELSE IF val = NilV
             THEN [panic |-> ErrReflectInterfaceZero, result |-> result]
             ELSE FlattenArraySlice_f(currentArraySlice, i + 1, Append(result, val))

FlattenArraySlice(value) ==
    IF value.kind \notin {"array", "slice"}
    THEN [panic |-> ErrFlattenArraySliceArg, ret |-> <<>>]
    ELSE LET r == FlattenArraySlice_f(value, 0, <<>>)
         IN  [panic |-> r.panic, ret |-> IF r.panic = NoPanic THEN r.result ELSE <<>>]

\* A nested sequence d levels deep with n elements at each level, the last a
\* number and the others nested one level less; slices and arrays alternate.
\* The numbers tell their place: t, then the index at each level.
RECURSIVE Nest(_, _, _)
Nest(d, n, t) ==
    IF d = 0 THEN IntV(t)
    ELSE [kind |-> IF d % 2 = 1 THEN "slice" ELSE "array",
          elems |-> [j \in 1..n |-> IF j < n THEN Nest(d - 1, n, 10 * t + j)
                                    ELSE IntV(10 * t + j)]]

ElemShapes ==
    {[kind |-> "int"], NilV, NilPtrV}
        \cup {[kind |-> "nest", d |-> d, n |-> n] : d \in 1..MaxDepth, n \in 0..MaxWidth}

\* the arguments: outer slices and arrays of up to MaxWidth elements, and
\* two values that are neither
FlattenInputs ==
    {[kind |-> k,
      elems |-> [i \in 1..Len(shape) |->
                    CASE shape[i].kind = "int" -> IntV(i)
                      [] shape[i].kind = "nest" -> Nest(shape[i].d, shape[i].n, i)
                      [] OTHER -> shape[i]]] :
        k \in {"slice", "array"}, shape \in SeqsUpTo(ElemShapes, MaxWidth)}
      \cup {NilV, IntV(1)}

InitFlatten ==
    /\ input \in FlattenInputs
    /\ ctor = [name |-> "FlattenArraySlice", panic |-> NoPanic]
    /\ via = "direct"
    /\ out = <<>> /\ res = NoCall /\ calls = 0
    /\ it = NewIter(NoFunc) /\ fn = NoFunc /\ obs = ObsInit
    /\ last = [op |-> "NewIter", arg |-> NilV, panic |-> NoPanic, ret |-> NilV]
    /\ IterablesIdle

\* result := FlattenArraySlice(input)
DoFlatten ==
    /\ calls = 0
    /\ LET r == FlattenArraySlice(input)
       IN  /\ out' = r.ret
           /\ res' = [val |-> NilV, haveIt |-> FALSE, panic |-> r.panic]
    /\ calls' = 1
    /\ UNCHANGED <<iterVars, input, ctor, via, iterablesVars>>

\* FlattenArraySlice(result), the slice the first call returned
DoFlattenAgain ==
    /\ calls = 1
    /\ res.panic = NoPanic
    /\ LET r == FlattenArraySlice(SliceV(out))
       IN  res' = [val |-> SliceV(r.ret), haveIt |-> TRUE, panic |-> r.panic]
    /\ calls' = 2
    /\ UNCHANGED <<iterVars, input, ctor, via, out, iterablesVars>>

NextFlatten ==
    \/ DoFlatten
    \/ DoFlattenAgain

SpecFlatten == InitFlatten /\ [][NextFlatten]_vars

\* the elements that are not themselves an array or slice, at any depth, left
\* to right
RECURSIVE Leaves(_)
Leaves(x) ==
    IF x.kind \in {"array", "slice"}
    THEN Concat([i \in 1..Len(x.elems) |-> Leaves(x.elems[i])])
    ELSE <<x>>

IsFlat(x) == \A i \in 1..Len(x.elems) : x.elems[i].kind \notin {"array", "slice"}

RECURSIVE HasNilLeaf(_)
HasNilLeaf(x) ==
    IF x.kind \in {"array", "slice"}
    THEN \E i \in 1..Len(x.elems) : HasNilLeaf(x.elems[i])
    ELSE x = NilV

\* C18: FlattenArraySlice on a nested array/slice structure returns its leaf
\* values, every element at any depth that is not itself an array or slice, in
\* left-to-right depth-first order; empty nested sequences give nothing.
C18_FlattenLeaves ==
    (calls >= 1 /\ input.kind \in {"array", "slice"}) =>
        /\ calls = 1 => res.panic = NoPanic
        /\ out = Leaves(input)

\* what holds of the code: the leaves are returned in order when none of them
\* is an untyped nil, and the call panics when one is
FlattenLeavesUnlessNil ==
    (calls >= 1 /\ input.kind \in {"array", "slice"}) =>
        IF HasNilLeaf(input)
        THEN out = <<>> /\ (calls = 1 => res.panic = ErrReflectInterfaceZero)
        ELSE out = Leaves(input) /\ (calls = 1 => res.panic = NoPanic)

\* a structure three levels deep with an empty nested sequence next to it has
\* been flattened to its three leaves
FlattenDeep ==
    /\ calls = 1 /\ res.panic = NoPanic
    /\ Len(input.elems) = 2 /\ Len(out) = 3
    /\ input.elems[1] = Nest(2, 2, 1) /\ input.elems[2] = Nest(2, 0, 2)

\* C19: FlattenArraySlice of a flat one-dimensional sequence returns an equal
\* sequence; hence flattening the result of flattening any nested input
\* returns that result again.
C19_FlattenIdempotent ==
    (calls >= 1 /\ input.kind \in {"array", "slice"}) =>
        /\ IsFlat(input) => (out = input.elems /\ (calls = 1 => res.panic = NoPanic))
        /\ calls = 1 => res.panic = NoPanic
        /\ calls = 2 => (res.panic = NoPanic /\ res.val = SliceV(out))

\* what holds of the code: whenever the first call returns, the second
\* returns an equal sequence
FlattenIdempotentWhenDefined ==
    calls = 2 => (res.panic = NoPanic /\ res.val = SliceV(out) /\ out = Leaves(input))

\* ---------------------------- ReaderIterFunc (src/unnamed/part_004:144-162)
\* An io.Reader over the bytes data, read into a buffer of length 1. Read
\* returns n = 1 and the next byte, and at the end n = 0 and io.EOF; as the
\* contract of io.Reader allows, a reader may also return the last byte
\* together with io.EOF (eofWithLast). The read numbered failAt, if any, fails
\* with an error that is not io.EOF.
ByteV(b) == [kind |-> "byte", n |-> b]

ErrNil == "nil"
ErrEOF == "EOF"
ErrRead == "read error"

Reader(data, eofWithLast, failAt) ==
    [data |-> data, pos |-> 0, reads |-> 0, eofWithLast |-> eofWithLast, failAt |-> failAt]

\* src.Read(buf): buf is the content of buf[0] before the call
Reader_Read(src, buf) ==
    LET r == [src EXCEPT !.reads = @ + 1]
    IN  IF r.reads = r.failAt
        THEN [n |-> 0, err |-> ErrRead, buf |-> buf, src |-> r]
        ELSE IF r.pos = Len(r.data)
        THEN [n |-> 0, err |-> ErrEOF, buf |-> buf, src |-> r]
        ELSE [n |-> 1,
              err |-> IF r.eofWithLast /\ r.pos + 1 = Len(r.data) THEN ErrEOF ELSE ErrNil,
              buf |-> r.data[r.pos + 1],
              src |-> [r EXCEPT !.pos = @ + 1]]

\* the closure: src and buf := make([]byte, 1) are its captured variables
ReaderIterFunc(src) == [kind |-> "Reader", src |-> src, buf |-> 0]

ReaderIterFunc_call(f) ==
    LET r == Reader_Read(f.src, f.buf)
        g == [f EXCEPT !.src = r.src, !.buf = r.buf]
    IN  IF r.err # ErrNil
        THEN IF r.err # ErrEOF
             THEN [val |-> NilV, haveIt |-> FALSE, panic |-> r.err, fn |-> g]
             ELSE [val |-> IntV(0), haveIt |-> FALSE, panic |-> NoPanic, fn |-> g]
        ELSE [val |-> ByteV(g.buf), haveIt |-> TRUE, panic |-> NoPanic, fn |-> g]

InitReader ==
    /\ \E data \in SeqsUpTo(1..NumVals, MaxLen), eofWithLast \in BOOLEAN :
          \E failAt \in 0..(Len(data) + 1) :
              fn = ReaderIterFunc(Reader(data, eofWithLast, failAt))
    /\ input = NilV
    /\ ctor = [name |-> "ReaderIterFunc", panic |-> NoPanic]
    /\ via = "direct"
    /\ out = <<>> /\ res = NoCall /\ calls = 0
    /\ it = NewIter(NoFunc) /\ obs = ObsInit
    /\ last = [op |-> "NewIter", arg |-> NilV, panic |-> NoPanic, ret |-> NilV]
    /\ IterablesIdle

\* the function is called again, until it panics
CallReader ==
    /\ res.panic = NoPanic
    /\ calls < MaxLen + MaxExtra
    /\ LET r == ReaderIterFunc_call(fn)
       IN  /\ fn' = r.fn
           /\ res' = [val |-> r.val, haveIt |-> r.haveIt, panic |-> r.panic]
           /\ out' = IF r.haveIt THEN Append(out, r.val) ELSE out
    /\ calls' = calls + 1
    /\ UNCHANGED <<it, obs, last, input, ctor, via, iterablesVars>>

NextReader == CallReader

SpecReader == InitReader /\ [][NextReader]_vars

\* what the calls made so far must have given, for a source holding data
ReaderYieldsBytes ==
    LET data == fn.src.data
        n == Len(data)
        failed == fn.src.failAt \in 1..calls
    IN  /\ ~failed =>
              /\ out = [i \in 1..(IF calls <= n THEN calls ELSE n) |-> ByteV(data[i])]
              /\ (0 < calls /\ calls <= n) =>
                    res = [val |-> ByteV(data[calls]), haveIt |-> TRUE, panic |-> NoPanic]
              /\ calls > n => res = [val |-> IntV(0), haveIt |-> FALSE, panic |-> NoPanic]
        /\ failed => (res.panic = ErrRead /\ calls = fn.src.failAt)

\* C20: over a source holding the bytes b1..bn, ReaderIterFunc's function
\* returns (b1, true), ..., (bn, true) on its first n calls and (0, false) on
\* every later call; a read error other than end-of-stream makes the call
\* panic with that error.
C20_ReaderYieldsBytes == ReaderYieldsBytes

\* what holds of the code: the same, for the readers that return the last
\* byte with a nil error and io.EOF only on the read after it
ReaderYieldsBytesSeparateEOF == ~fn.src.eofWithLast => ReaderYieldsBytes

\* such a reader of two bytes has been read to its end and called twice more
ReaderReadToEnd ==
    /\ ~fn.src.eofWithLast /\ fn.src.failAt = 0
    /\ Len(fn.src.data) = 2 /\ Len(out) = 2 /\ calls = 4

\* ------- ReaderToRunesIterFunc, ReaderToLinesIterFunc (part_004:164-249)
\* A reader that returns at most `most` bytes from one Read, whatever the
\* length of the slice it is given: the contract of io.Reader allows a Read
\* to return fewer bytes than asked for.
ReaderOf(data, most, eofWithLast, failAt) ==
    [data |-> data, pos |-> 0, reads |-> 0, most |-> most,
     eofWithLast |-> eofWithLast, failAt |-> failAt]

Min(a, b) == IF a <= b THEN a ELSE b

\* src.Read(p) with len(p) = k > 0: the bytes delivered into p[0:n]
Reader_ReadN(src, k) ==
    LET r == [src EXCEPT !.reads = @ + 1]
        n == Min(Min(k, r.most), Len(r.data) - r.pos)
    IN  IF r.reads = r.failAt
        THEN [n |-> 0, err |-> ErrRead, bytes |-> <<>>, src |-> r]
        ELSE IF r.pos = Len(r.data)
        THEN [n |-> 0, err |-> ErrEOF, bytes |-> <<>>, src |-> r]
        ELSE [n |-> n,
              err |-> IF r.eofWithLast /\ r.pos + n = Len(r.data) THEN ErrEOF ELSE ErrNil,
              bytes |-> SubSeq(r.data, r.pos + 1, r.pos + n),
              src |-> [r EXCEPT !.pos = @ + n]]

UTFMax == 4
RuneError == 65533
InvalidUTF8EncodingError == "Invalid UTF 8 encoding"
RuneV(r) == [kind |-> "rune", n |-> r]
StringV(runes) == [kind |-> "string", runes |-> runes]

\* a continuation byte within lo..hi
Cont(b, lo, hi) == lo <= b /\ b <= hi

\* utf8.DecodeRune(p) for a p of 4 bytes: the rune and its width, or
\* (RuneError, 1) when p does not start with a valid encoding
DecodeRune(p) ==
    LET p0 == p[1]
        p1 == p[2]
        p2 == p[3]
        p3 == p[4]
        bad == [r |-> RuneError, size |-> 1]
        lo == IF p0 = 224 THEN 160 ELSE IF p0 = 240 THEN 144 ELSE 128
        hi == IF p0 = 237 THEN 159 ELSE IF p0 = 244 THEN 143 ELSE 191
    IN  IF p0 < 128 THEN [r |-> p0, size |-> 1]
        ELSE IF p0 < 194 \/ p0 > 244 THEN bad
        ELSE IF ~Cont(p1, lo, hi) THEN bad
        ELSE IF p0 < 224 THEN [r |-> (p0 % 32) * 64 + (p1 % 64), size |-> 2]
        ELSE IF ~Cont(p2, 128, 191) THEN bad
        ELSE IF p0 < 240
        THEN [r |-> (p0 % 16) * 4096 + (p1 % 64) * 64 + (p2 % 64), size |-> 3]
        ELSE IF ~Cont(p3, 128, 191) THEN bad
        ELSE [r |-> (p0 % 8) * 262144 + (p1 % 64) * 4096 + (p2 % 64) * 64 + (p3 % 64),
              size |-> 4]

\* the closure: src, buf := make([]byte, 4) and bufPos are its captured variables
ReaderToRunesIterFunc(src) ==
    [kind |-> "Runes", src |-> src, buf |-> [i \in 1..UTFMax |-> 0], bufPos |-> 0]

\* the rest of a call once Read has returned r
ReaderToRunesIterFunc_read(f, r) ==
    LET buf1 == [i \in 1..UTFMax |->
                    IF f.bufPos < i /\ i <= f.bufPos + r.n THEN r.bytes[i - f.bufPos]
                    ELSE f.buf[i]]
        g == [f EXCEPT !.src = r.src, !.buf = buf1]
        d == DecodeRune(buf1)
        bufPos == UTFMax - d.size
        shifted == [i \in 1..UTFMax |-> IF i <= bufPos THEN buf1[i + d.size] ELSE 0]
    IN  IF r.err # ErrNil /\ r.err # ErrEOF
        THEN [val |-> NilV, haveIt |-> FALSE, panic |-> r.err, fn |-> g]
        ELSE IF buf1[1] = 0
        THEN [val |-> RuneV(RuneError), haveIt |-> FALSE, panic |-> NoPanic, fn |-> g]
        ELSE IF d.r = RuneError
        THEN [val |-> NilV, haveIt |-> FALSE, panic |-> InvalidUTF8EncodingError, fn |-> g]
        ELSE [val |-> RuneV(d.r), haveIt |-> TRUE, panic |-> NoPanic,
              fn |-> [g EXCEPT !.buf = shifted, !.bufPos = bufPos]]

ReaderToRunesIterFunc_call(f) ==
    ReaderToRunesIterFunc_read(f, Reader_ReadN(f.src, UTFMax - f.bufPos))

\* the closure: runesIter, str and lastCR are its captured variables
ReaderToLinesIterFunc(src) ==
    [kind |-> "Lines", runesIter |-> ReaderToRunesIterFunc(src), str |-> <<>>, lastCR |-> FALSE]

\* the loop "for { codePoint, haveIt := runesIter() ... }"; c is the outcome
\* of runesIter()
RECURSIVE ReaderToLinesIterFunc_got(_, _)
ReaderToLinesIterFunc_loop(f) ==
    ReaderToLinesIterFunc_got(f, ReaderToRunesIterFunc_call(f.runesIter))

ReaderToLinesIterFunc_got(f, c) ==
    LET g == [f EXCEPT !.runesIter = c.fn]
    IN  IF c.panic # NoPanic
        THEN [val |-> NilV, haveIt |-> FALSE, panic |-> c.panic, fn |-> g]
        ELSE IF ~c.haveIt
        THEN IF Len(g.str) > 0
             THEN [val |-> StringV(g.str), haveIt |-> TRUE, panic |-> NoPanic, fn |-> g]
             ELSE [val |-> StringV(<<>>), haveIt |-> FALSE, panic |-> NoPanic, fn |-> g]
        ELSE IF c.val.n = 13
        THEN [val |-> StringV(g.str), haveIt |-> TRUE, panic |-> NoPanic,
              fn |-> [g EXCEPT !.lastCR = TRUE]]
        ELSE IF c.val.n = 10
        THEN IF g.lastCR
             THEN ReaderToLinesIterFunc_loop([g EXCEPT !.lastCR = FALSE])
             ELSE [val |-> StringV(g.str), haveIt |-> TRUE, panic |-> NoPanic, fn |-> g]
        ELSE ReaderToLinesIterFunc_loop([g EXCEPT !.str = Append(@, c.val.n)])

\* a call: str.Reset(), then the loop
ReaderToLinesIterFunc_call(f) == ReaderToLinesIterFunc_loop([f EXCEPT !.str = <<>>])

\* The texts handed to the reader: a sequence of pieces, each the UTF-8
\* encoding of one rune (of 1 to 4 bytes: 'a', CR, LF, U+0000, U+00E0,
\* U+1E01, U+1D191, U+FFFD) or a malformed piece (a byte that occurs in no
\* encoding; the first two bytes of a three-byte encoding).  No piece starts
\* with a continuation byte, so a text splits into its pieces in one way.
Piece(bytes, rune, valid) == [bytes |-> bytes, rune |-> rune, valid |-> valid]

Encoded ==
    { Piece(<<97>>, 97, TRUE), Piece(<<13>>, 13, TRUE), Piece(<<10>>, 10, TRUE),
      Piece(<<0>>, 0, TRUE), Piece(<<195, 160>>, 224, TRUE),
      Piece(<<225, 184, 129>>, 7681, TRUE),
      Piece(<<240, 157, 134, 145>>, 119185, TRUE),
      Piece(<<239, 191, 189>>, 65533, TRUE) }

Malformed == { Piece(<<255>>, RuneError, FALSE), Piece(<<225, 184>>, RuneError, FALSE) }

Pieces == Encoded \cup Malformed

\* the pieces of the texts that are read by lines: 'a', CR, LF, U+0000, U+00E0
LinePieces == {p \in Encoded : p.rune \in {97, 13, 10, 0, 224}}

Texts(name) ==
    IF name = "ReaderToRunesIterFunc" THEN SeqsUpTo(Pieces, MaxRunes)
    ELSE SeqsUpTo(LinePieces, MaxLineRunes)

RECURSIVE BytesOf(_)
BytesOf(text) == IF text = <<>> THEN <<>> ELSE Head(text).bytes \o BytesOf(Tail(text))

RunesOf(text) == [i \in 1..Len(text) |-> text[i].rune]

\* the sizes of the reads a source delivers at most: one byte at a time, or
\* as many bytes as asked for
Mosts == {1, UTFMax}

InitText ==
    /\ \E name \in {"ReaderToRunesIterFunc", "ReaderToLinesIterFunc"}, most \in Mosts,
          eofWithLast \in BOOLEAN, failAt \in 0..1 :
        \E text \in Texts(name) :
          /\ input = text
          /\ ctor = [name |-> name, panic |-> NoPanic]
          /\ fn = IF name = "ReaderToRunesIterFunc"
                  THEN ReaderToRunesIterFunc(ReaderOf(BytesOf(text), most, eofWithLast, failAt))
                  ELSE ReaderToLinesIterFunc(ReaderOf(BytesOf(text), most, eofWithLast, failAt))
    /\ via = "direct"
    /\ out = <<>> /\ res = NoCall /\ calls = 0
    /\ it = NewIter(NoFunc) /\ obs = ObsInit
    /\ last = [op |-> "NewIter", arg |-> NilV, panic |-> NoPanic, ret |-> NilV]
    /\ IterablesIdle

\* the outcome r of a call of the function is recorded
CalledText(r) ==
    /\ fn' = r.fn
    /\ res' = [val |-> r.val, haveIt |-> r.haveIt, panic |-> r.panic]
    /\ out' = IF r.haveIt THEN Append(out, r.val) ELSE out
    /\ calls' = calls + 1
    /\ UNCHANGED <<it, obs, last, input, ctor, via, iterablesVars>>

\* the function of ReaderToRunesIterFunc is called again, until it panics
CallRunes ==
    /\ ctor.name = "ReaderToRunesIterFunc"
    /\ res.panic = NoPanic
    /\ calls < MaxRunes + MaxExtra
    /\ CalledText(ReaderToRunesIterFunc_call(fn))

\* the function of ReaderToLinesIterFunc is called again, until it panics
CallLines ==
    /\ ctor.name = "ReaderToLinesIterFunc"
    /\ res.panic = NoPanic
    /\ calls < MaxLineRunes + MaxExtra
    /\ CalledText(ReaderToLinesIterFunc_call(fn))

NextText == CallRunes \/ CallLines

SpecText == InitText /\ [][NextText]_vars

\* the reader of the text
TextSrc == IF ctor.name = "ReaderToRunesIterFunc" THEN fn.src ELSE fn.runesIter.src

AllEncoded(text) == \A i \in 1..Len(text) : text[i].valid

\* the calls made so far gave the runes of the text, one a call, and
\* (utf8.RuneError, false) after the last
YieldsRunes ==
    LET runes == RunesOf(input)
        m == Len(runes)
    IN  /\ out = [i \in 1..Min(calls, m) |-> RuneV(runes[i])]
        /\ (0 < calls /\ calls <= m) =>
              res = [val |-> RuneV(runes[calls]), haveIt |-> TRUE, panic |-> NoPanic]
        /\ calls > m => res = [val |-> RuneV(RuneError), haveIt |-> FALSE, panic |-> NoPanic]

\* C21: over a source that holds the valid UTF-8 encoding of the runes
\* r1..rm, of 1 to 4 bytes each in any mix, the function of
\* ReaderToRunesIterFunc returns (r1, true), ..., (rm, true), one a call, and
\* (utf8.RuneError, false) on every later call.
C21_RunesInOrder ==
    (ctor.name = "ReaderToRunesIterFunc" /\ AllEncoded(input) /\ TextSrc.failAt = 0)
        => YieldsRunes

\* what holds of the code: the same, for a source that fills the slice it is
\* given while it has bytes, and a text without U+0000 and U+FFFD
RunesInOrderPlain ==
    (/\ ctor.name = "ReaderToRunesIterFunc" /\ AllEncoded(input) /\ TextSrc.failAt = 0
     /\ TextSrc.most = UTFMax
     /\ \A i \in 1..Len(input) : input[i].rune \notin {0, RuneError})
        => YieldsRunes

\* a text of a one-byte, a four-byte and a two-byte rune has been read to its
\* end by such calls, and the function called twice more
RunesReadToEnd ==
    /\ ctor.name = "ReaderToRunesIterFunc" /\ TextSrc.most = UTFMax /\ TextSrc.failAt = 0
    /\ RunesOf(input) = <<97, 119185, 224>>
    /\ Len(out) = 3 /\ calls = 5

\* the first malformed piece of a text that has one
FirstMalformed(text) ==
    CHOOSE j \in 1..Len(text) : ~text[j].valid /\ \A i \in 1..(j - 1) : text[i].valid

\* the calls made so far gave the runes before the malformed bytes, and the
\* call that reached these panicked
PanicsAtMalformed ==
    LET runes == RunesOf(input)
        j == FirstMalformed(input)
    IN  /\ calls <= j
        /\ out = [i \in 1..Min(calls, j - 1) |-> RuneV(runes[i])]
        /\ (0 < calls /\ calls < j) =>
              res = [val |-> RuneV(runes[calls]), haveIt |-> TRUE, panic |-> NoPanic]
        /\ calls = j => res.panic = InvalidUTF8EncodingError

\* C22: when the source holds invalid UTF-8, or ends in the middle of a
\* multi-byte sequence, the function of ReaderToRunesIterFunc panics with
\* "Invalid UTF 8 encoding" at the call that reaches these bytes, after it
\* has returned every rune before them; it never reports them as exhaustion.
C22_PanicsAtMalformed ==
    (ctor.name = "ReaderToRunesIterFunc" /\ ~AllEncoded(input) /\ TextSrc.failAt = 0)
        => PanicsAtMalformed

\* what holds of the code: the same, for a source that fills the slice it is
\* given while it has bytes, and without U+0000 and U+FFFD before the
\* malformed bytes
PanicsAtMalformedPlain ==
    (/\ ctor.name = "ReaderToRunesIterFunc" /\ ~AllEncoded(input) /\ TextSrc.failAt = 0
     /\ TextSrc.most = UTFMax
     /\ \A i \in 1..Len(input) : input[i].valid => input[i].rune \notin {0, RuneError})
        => PanicsAtMalformed

\* a text of two runes and the start of a three-byte sequence: the third call
\* of the function has panicked
RunesReadToMalformed ==
    /\ ctor.name = "ReaderToRunesIterFunc" /\ TextSrc.most = UTFMax /\ TextSrc.failAt = 0
    /\ Len(input) = 3 /\ input[3].bytes = <<225, 184>> /\ AllEncoded(SubSeq(input, 1, 2))
    /\ Len(out) = 2 /\ res.panic = InvalidUTF8EncodingError

\* regexp "\r\n|\r|\n" Split(text, -1), as the test of ReaderToLinesIterFunc
\* computes the expected lines: the strings between the terminators, the
\* string after the last terminator included; cur is the string begun
RECURSIVE SplitFrom(_, _)
SplitFrom(runes, cur) ==
    IF runes = <<>> THEN <<cur>>
    ELSE IF Head(runes) = 13 /\ Len(runes) > 1 /\ runes[2] = 10
    THEN <<cur>> \o SplitFrom(Tail(Tail(runes)), <<>>)
    ELSE IF Head(runes) \in {10, 13}
    THEN <<cur>> \o SplitFrom(Tail(runes), <<>>)
    ELSE SplitFrom(Tail(runes), Append(cur, Head(runes)))

Split(runes) == SplitFrom(runes, <<>>)

\* the lines of a text: the strings that a terminator ends, and the string
\* after the last terminator when it is not empty
LinesOf(runes) ==
    LET all == Split(runes)
        n == Len(all)
    IN  IF all[n] = <<>> THEN SubSeq(all, 1, n - 1) ELSE all

\* the calls made so far gave the strings of lines, one a call and each with
\* true, and ("", false) after the last
YieldsLines(lines) ==
    LET m == Len(lines)
    IN  /\ out = [i \in 1..Min(calls, m) |-> StringV(lines[i])]
        /\ (0 < calls /\ calls <= m) =>
              res = [val |-> StringV(lines[calls]), haveIt |-> TRUE, panic |-> NoPanic]
        /\ calls > m => res = [val |-> StringV(<<>>), haveIt |-> FALSE, panic |-> NoPanic]

LinesCase == ctor.name = "ReaderToLinesIterFunc" /\ AllEncoded(input) /\ TextSrc.failAt = 0

\* a source that fills the slice it is given while it has bytes, and a text
\* without U+0000 and U+FFFD
PlainCase ==
    /\ TextSrc.most = UTFMax
    /\ \A i \in 1..Len(input) : input[i].rune \notin {0, RuneError}

\* a line feed that does not follow a carriage return immediately, while a
\* carriage return came before it with no line feed between them
StaleCR(runes) ==
    \E j \in 1..Len(runes) :
        /\ runes[j] = 10
        /\ j > 1 => runes[j - 1] # 13
        /\ \E i \in 1..(j - 1) : runes[i] = 13 /\ \A k \in (i + 1)..(j - 1) : runes[k] # 10

\* C23: for every text that is not empty, the function of
\* ReaderToLinesIterFunc returns, in order and each with true, exactly the
\* strings that splitting the text at every "\r\n", "\r" or "\n" gives, and
\* then ("", false).
C23_LinesAreSplit ==
    (LinesCase /\ Len(input) > 0) => YieldsLines(Split(RunesOf(input)))

\* C24: a line feed is absorbed only when it follows a carriage return
\* immediately: every carriage return, and every line feed that is not
\* immediately after one, ends exactly one line, whatever terminators came
\* earlier, so that the calls return the lines of the text one by one.
C24_EveryTerminatorEndsALine ==
    LinesCase =>
        LET lines == LinesOf(RunesOf(input))
        IN  /\ Len(out) <= Len(lines)
            /\ out = [i \in 1..Len(out) |-> StringV(lines[i])]
            /\ (calls > 0 /\ res.panic = NoPanic /\ ~res.haveIt) => Len(out) = Len(lines)

\* the text CR, "a", LF, "a" of three lines has been read by calls that gave
\* the two lines "" and "aa": the line feed was absorbed
StaleCRAbsorbsLF ==
    /\ LinesCase /\ PlainCase
    /\ RunesOf(input) = <<13, 97, 10, 97>>
    /\ out = <<StringV(<<>>), StringV(<<97, 97>>)>>

\* what holds of the code, for a source and a text as in PlainCase and a
\* text where no line feed comes later than right after a carriage return:
\* the calls return the lines of the text, then ("", false)
LinesPlain ==
    (LinesCase /\ PlainCase /\ ~StaleCR(RunesOf(input))) => YieldsLines(LinesOf(RunesOf(input)))

\* the text "a", CR, LF has been read by such calls: one line, then ("", false)
LinesReadToEnd ==
    /\ LinesCase /\ PlainCase
    /\ RunesOf(input) = <<97, 13, 10>>
    /\ out = <<StringV(<<97>>)>> /\ calls = 2

\* the string after the last terminator of the text
LastFragment(runes) == LET all == Split(runes) IN all[Len(all)]

NoMore == [val |-> StringV(<<>>), haveIt |-> FALSE, panic |-> NoPanic]

LinesEnd ==
    /\ (Len(input) = 0 /\ calls > 0) => res = NoMore
    /\ (calls > 0 /\ res.panic = NoPanic /\ ~res.haveIt /\ LastFragment(RunesOf(input)) # <<>>)
          => (out # <<>> /\ out[Len(out)] = StringV(LastFragment(RunesOf(input))))

LinesStayEnded == (calls > 0 /\ res = NoMore) => res' = NoMore

\* C25: over an empty source the first call of the function of
\* ReaderToLinesIterFunc returns ("", false); a last fragment that is not
\* empty and has no terminator after it is returned as one last line; once
\* ("", false) has been returned every further call returns ("", false).
C25_LinesEnd ==
    /\ [](LinesCase => LinesEnd)
    /\ [][LinesCase => LinesStayEnded]_vars

\* what holds of the code: the same, for a source and a text as in LinesPlain
LinesEndPlain ==
    /\ []((LinesCase /\ PlainCase /\ ~StaleCR(RunesOf(input))) => LinesEnd)
    /\ [][(LinesCase /\ PlainCase) => LinesStayEnded]_vars

\* the text "a", LF, "a" has been read by such calls and the function
\* called once more after it returned ("", false)
LinesReadPastEnd ==
    /\ LinesCase /\ PlainCase
    /\ RunesOf(input) = <<97, 10, 97>>
    /\ Len(out) = 2 /\ calls = 4

\* ------------------- a *Iter shared by reference (src/iter.go:185-326, 612-626)
\* IterFunc(iter): the closure holds the pointer theIter
IterFunc(iter) == [kind |-> "IterFunc", theIter |-> Iter0_Iter(iter)]

\* Mutant: the closure works on a copy of the Iter it was given, so that what
\* it does to the Iter is lost.
IterFunc_next_OnCopy(f, pool, n) ==
    LET v == Iter0_Value(n.o)
    IN  IF n.panic # NoPanic
        THEN [val |-> NilV, haveIt |-> FALSE, panic |-> n.panic, fn |-> f, pool |-> pool]
        ELSE IF n.ret
        THEN [val |-> v.ret, haveIt |-> v.panic = NoPanic, panic |-> v.panic, fn |-> f,
              pool |-> pool]
        ELSE [val |-> NilV, haveIt |-> FALSE, panic |-> NoPanic,
              fn |-> [f EXCEPT !.theIter = NoIter], pool |-> pool]

\* a call of the function of IterFunc with theIter != nil; n is the outcome
\* of theIter.Next()
IterFunc_next(f, pool, n) ==
    LET v == Iter0_Value(n.o)
    IN  IF n.panic # NoPanic
        THEN [val |-> NilV, haveIt |-> FALSE, panic |-> n.panic, fn |-> f, pool |-> pool]
        ELSE IF n.ret
        THEN [val |-> v.ret, haveIt |-> v.panic = NoPanic, panic |-> v.panic, fn |-> f,
              pool |-> [pool EXCEPT ![f.theIter] = v.o]]
        ELSE [val |-> NilV, haveIt |-> FALSE, panic |-> NoPanic,
              fn |-> [f EXCEPT !.theIter = NoIter], pool |-> [pool EXCEPT ![f.theIter] = n.o]]

\* a call of the iterating function of an object of the pool
PoolFunc_call(f, pool) ==
    IF f.kind = "IterFunc"
    THEN IF f.theIter # NoIter
         THEN IterFunc_next(f, pool, Iter0_Next(pool[f.theIter]))
         ELSE [val |-> NilV, haveIt |-> FALSE, panic |-> NoPanic, fn |-> f, pool |-> pool]
    ELSE IterFunc0_call(f, pool)

\* Next and Value on object k of the pool: the outcome and the pool after it
Pool_Next(pool, k) ==
    IF ~pool[k].it.iter
    THEN [pool |-> pool, panic |-> ErrNextExhaustedIter, ret |-> FALSE]
    ELSE LET n == Iter0_NextGot(pool[k], PoolFunc_call(pool[k].fn, pool))
         IN  [pool |-> [n.pool EXCEPT ![k] = n.o], panic |-> n.panic, ret |-> n.ret]

Pool_Value(pool, k) ==
    LET v == Iter0_Value(pool[k])
    IN  [pool |-> [pool EXCEPT ![k] = v.o], panic |-> v.panic, ret |-> v.ret]

\* Object 1 is iter = Of(...) of 0..MaxShared values. The handles on it: iter,
\* iterable.Iter() for iterable = Iterable(iter), and the wrappers
\* OfIterables(iter), OfElements(iter) and NewIter(IterFunc(iter)), objects 2
\* to 4 of the pool.
InitShared ==
    /\ \E n \in 0..MaxShared :
          iters = << NewIter0(Of(ItemsOf(1, n))),
                     NewIter0(IterablesFunc(<<IterPtr(1)>>)),
                     OfElements(IterPtr(1), <<>>).o,
                     NewIter0(IterFunc(IterPtr(1))) >>
    /\ iterables = <<IterPtr(1), IterPtr(Iter0_Iter(IterPtr(1))), IterPtr(2), IterPtr(3), IterPtr(4)>>
    /\ ifn = NoFunc
    /\ it = NewIter(NoFunc) /\ fn = NoFunc /\ obs = ObsInit
    /\ last = [op |-> "NewIter", arg |-> NilV, panic |-> NoPanic, ret |-> NilV]
    /\ input = NilV
    /\ ctor = [name |-> "Iter.Iter", panic |-> NoPanic]
    /\ via = "Iter"
    /\ out = <<>> /\ res = NoCall /\ calls = 0

\* handle h is advanced; r is the outcome of Next. out keeps the values the
\* calls of Next fetched and the values the calls of Value returned, each
\* with the object it was called on.
SharedNexted(h, r) ==
    /\ iters' = r.pool
    /\ last' = [op |-> "Next", arg |-> h, panic |-> r.panic, ret |-> r.ret]
    /\ out' = IF r.panic = NoPanic /\ r.ret
              THEN Append(out, [op |-> "Next", id |-> iterables[h].id,
                                val |-> r.pool[iterables[h].id].it.value])
              ELSE out

DoSharedNext ==
    /\ \E h \in 1..Len(iterables) : SharedNexted(h, Pool_Next(iters, iterables[h].id))
    /\ UNCHANGED <<it, fn, obs, input, ctor, via, res, calls, iterables, ifn>>

SharedValued(h, r) ==
    /\ iters' = r.pool
    /\ last' = [op |-> "Value", arg |-> h, panic |-> r.panic, ret |-> r.ret]
    /\ out' = IF r.panic = NoPanic
              THEN Append(out, [op |-> "Value", id |-> iterables[h].id, val |-> r.ret])
              ELSE out

DoSharedValue ==
    /\ \E h \in 1..Len(iterables) : SharedValued(h, Pool_Value(iters, iterables[h].id))
    /\ UNCHANGED <<it, fn, obs, input, ctor, via, res, calls, iterables, ifn>>

NextShared == DoSharedNext \/ DoSharedValue

SpecShared == InitShared /\ [][NextShared]_vars

IsNext(e) == e.op = "Next"
IsValue(e) == e.op = "Value"

\* C26: Iter.Iter() returns its receiver, and a *Iter that several handles
\* and wrappers refer to is drained exactly once: whatever the order of the
\* calls on the handles, the calls of Next that return true fetch the elements
\* of the source one after the other, each once; no element is returned by
\* Value twice or on another object than the one whose Next fetched it; and
\* once the source is exhausted through one handle, Next returns true on none.
C26_SharedDrainedOnce ==
    /\ [](LET elems == iters[1].fn.arraySlice.elems
              fetched == SelectSeq(out, IsNext)
              read == SelectSeq(out, IsValue)
          IN  /\ iterables[2] = iterables[1]
              /\ Len(fetched) = iters[1].fn.idx
              /\ \A i \in 1..Len(fetched) : fetched[i].val = elems[i]
              /\ \A i \in 1..Len(read) :
                    /\ \E j \in 1..Len(fetched) :
                          fetched[j].val = read[i].val /\ fetched[j].id = read[i].id
                    /\ \A j \in 1..Len(read) : read[j].val = read[i].val => j = i
              /\ ~iters[1].it.iter => Len(fetched) = Len(elems))
    /\ [][(~iters[1].it.iter /\ last'.op = "Next") =>
              (~last'.ret /\ last'.panic \in {NoPanic, ErrNextExhaustedIter})]_vars

\* two elements were fetched and read through two objects, the wrapper of
\* IterFunc found the source exhausted, and then Next on iterable.Iter()
\* panicked
C26_Witness ==
    /\ Len(SelectSeq(out, IsNext)) = 2
    /\ Cardinality({out[i].id : i \in 1..Len(out)}) = 2
    /\ Len(SelectSeq(out, IsValue)) = 2
    /\ ~iters[4].it.iter
    /\ last = [op |-> "Next", arg |-> 2, panic |-> ErrNextExhaustedIter, ret |-> FALSE]

\* --------------------------- Iterable, a generator of Iter (part_004:960-1111)
\* A generator is nil, or IterableArraySliceFunc(items), or a function given
\* to IterableOfGenerator that returns a nil iterating function.
ErrIterableGeneratorCannotBeNil == "Iterable.Generator cannot be nil"
ErrIterableGeneratorCannotReturnNil == "Iterable.Generator cannot return a nil iterating function"

NilGenerator == [kind |-> "nil"]
NilFuncGenerator == [kind |-> "returns nil"]
IterableArraySliceFunc(items) == [kind |-> "IterableArraySliceFunc", items |-> items]

\* it.Generator(): the iterating function made
Generator_call(g) ==
    IF g.kind = "IterableArraySliceFunc" THEN ArraySliceIterFunc(g.items).fn ELSE NoFunc

IterableOf(items) == [Generator |-> IterableArraySliceFunc(SliceV(items))]

\* Iterable.Iter(): the panic raised, or the Iter made with its function
Iterable_Iter(iterable) ==
    LET iterFunc == Generator_call(iterable.Generator)
    IN  IF iterable.Generator = NilGenerator
        THEN [panic |-> ErrIterableGeneratorCannotBeNil, w |-> NilV]
        ELSE IF iterFunc = NoFunc
        THEN [panic |-> ErrIterableGeneratorCannotReturnNil, w |-> NilV]
        ELSE [panic |-> NoPanic, w |-> [it |-> NewIter(iterFunc), fn |-> iterFunc, obs |-> ObsInit]]

\* The Iterable is held in input, the Iters generated from it in iters, and
\* calls counts the invocations of the generator.
InitGenerated ==
    /\ \E n \in 0..MaxShared :
          input \in {IterableOf(ItemsOf(1, n)), [Generator |-> NilGenerator],
                     [Generator |-> NilFuncGenerator]}
    /\ iters = <<>>
    /\ iterables = <<>> /\ ifn = NoFunc
    /\ it = NewIter(NoFunc) /\ fn = NoFunc /\ obs = ObsInit
    /\ last = [op |-> "NewIter", arg |-> NilV, panic |-> NoPanic, ret |-> NilV]
    /\ ctor = [name |-> "IterableOf", panic |-> NoPanic]
    /\ via = "Iter"
    /\ out = <<>> /\ res = NoCall /\ calls = 0

\* Mutant: Iter() hands out the Iter generated before, when there is one.
DoIter_Again ==
    /\ Len(iters) < MaxGenerated /\ calls < MaxGenerated
    /\ LET r == Iterable_Iter(input)
       IN  /\ iters' = IF r.panic # NoPanic THEN iters
                       ELSE IF iters # <<>> THEN Append(iters, iters[Len(iters)])
                       ELSE Append(iters, r.w)
           /\ calls' = IF input.Generator = NilGenerator \/ iters # <<>> THEN calls ELSE calls + 1
           /\ last' = [op |-> "Iter", arg |-> NilV, panic |-> r.panic, ret |-> NilV]
    /\ UNCHANGED <<it, fn, obs, input, ctor, via, out, res, iterables, ifn>>

\* input.Iter()
DoIter ==
    /\ Len(iters) < MaxGenerated /\ calls < MaxGenerated
    /\ LET r == Iterable_Iter(input)
       IN  /\ iters' = IF r.panic = NoPanic THEN Append(iters, r.w) ELSE iters
           /\ calls' = IF input.Generator = NilGenerator THEN calls ELSE calls + 1
           /\ last' = [op |-> "Iter", arg |-> NilV, panic |-> r.panic, ret |-> NilV]
    /\ UNCHANGED <<it, fn, obs, input, ctor, via, out, res, iterables, ifn>>

\* a call on the k-th generated Iter; r is its outcome
Generated(op, k, r) ==
    /\ iters' = [iters EXCEPT ![k] = r.w]
    /\ last' = [op |-> op, arg |-> k, panic |-> r.panic, ret |-> r.ret]
    /\ UNCHANGED <<it, fn, obs, input, ctor, via, out, res, calls, iterables, ifn>>

DoGeneratedNext == \E k \in 1..Len(iters) : Generated("Next", k, Iter_Next(iters[k]))

DoGeneratedValue == \E k \in 1..Len(iters) : Generated("Value", k, Iter_Value(iters[k]))

\* a value that was read is pushed back, while the buffer is empty
DoGeneratedUnread ==
    \E k \in 1..Len(iters) :
        /\ iters[k].it.buffer = <<>>
        /\ iters[k].it.value # NilV
        /\ Generated("Unread", k, Iter_Unread(iters[k], iters[k].it.value))

NextGenerated == DoIter \/ DoGeneratedNext \/ DoGeneratedValue \/ DoGeneratedUnread

SpecGenerated == InitGenerated /\ [][NextGenerated]_vars

\* C27: every call of Iterable.Iter() invokes the generator and returns a new
\* Iter that yields the whole sequence from its beginning, whatever was done
\* with the Iters generated before; Next, Value, Unread and exhaustion on one
\* generated Iter change nothing of another one.
C27_GeneratedItersIndependent ==
    /\ [](/\ (input.Generator.kind = "IterableArraySliceFunc") => calls = Len(iters)
          /\ \A k \in 1..Len(iters) :
                /\ iters[k].fn.arraySlice = input.Generator.items
                /\ ~iters[k].it.iter => iters[k].fn.idx = Len(input.Generator.items.elems))
    /\ [][/\ (last'.op = "Iter" /\ last'.panic = NoPanic) =>
                /\ calls' = calls + 1
                /\ Len(iters') = Len(iters) + 1
                /\ iters'[Len(iters')] =
                      [it |-> NewIter(NoFunc), fn |-> Of(input.Generator.items.elems),
                       obs |-> ObsInit]
                /\ \A j \in 1..Len(iters) : iters'[j] = iters[j]
          /\ last'.op \in {"Next", "Value", "Unread"} =>
                \A j \in 1..Len(iters) : j # last'.arg => iters'[j] = iters[j]]_vars

\* the first Iter of an Iterable of two values is exhausted, and the second,
\* generated after that, has given the first value and had it pushed back
C27_Witness ==
    /\ Len(iters) = 2
    /\ ~iters[1].it.iter /\ iters[1].fn.idx = 2
    /\ iters[2].fn.idx = 1 /\ Len(iters[2].it.buffer) = 1
    /\ last = [op |-> "Unread", arg |-> 2, panic |-> NoPanic, ret |-> NilV]

\* ------------------------------------- DelayedIterFunc (src/iter.go:163-179)
\* A generator is a function that returns an iterating function (makes), or
\* nil for one that returns no function. The closure of DelayedIterFunc holds
\* the generator and iterFunc, nil at first; invoked counts the invocations
\* of the generator (no program state).
ErrNilFuncCall == "runtime error: invalid memory address or nil pointer dereference"

GeneratorOf(f) == [kind |-> "generator", makes |-> f]

DelayedIterFunc(generator) ==
    [kind |-> "Delayed", generator |-> generator, iterFunc |-> NoFunc, invoked |-> 0]

\* Mutant: the function the generator made is not stored.
DelayedIterFunc_call_NotStored(f) ==
    LET g == [f EXCEPT !.invoked = @ + 1]
        r == IterFunc_call(f.generator.makes)
    IN  IF f.generator.makes = NoFunc
        THEN [val |-> NilV, haveIt |-> FALSE, panic |-> ErrNilFuncCall, fn |-> g]
        ELSE [val |-> r.val, haveIt |-> r.haveIt, panic |-> NoPanic, fn |-> g]

DelayedIterFunc_call(f) ==
    LET g == IF f.iterFunc = NoFunc
             THEN [f EXCEPT !.iterFunc = f.generator.makes, !.invoked = @ + 1]
             ELSE f
        r == IterFunc_call(g.iterFunc)
    IN  IF g.iterFunc = NoFunc
        THEN [val |-> NilV, haveIt |-> FALSE, panic |-> ErrNilFuncCall, fn |-> g]
        ELSE [val |-> r.val, haveIt |-> r.haveIt, panic |-> NoPanic,
              fn |-> [g EXCEPT !.iterFunc = r.fn]]

\* the iterating functions a generator makes: those of the adapters over the
\* values of Inputs, NoValueIterFunc, or none
Made ==
    {ArraySliceIterFunc(v).fn : v \in {x \in Inputs : x.kind \in {"array", "slice"}}}
        \cup UNION {{MapIterFunc(v, order).fn : order \in Orders(DOMAIN v.m)} :
                        v \in {x \in Inputs : x.kind = "map"}}
        \cup {SingleValueIterFunc(v).fn : v \in Vals}
        \cup {NoValueIterFunc, NoFunc}

InitDelayed ==
    /\ \E f \in Made : input = GeneratorOf(f)
    /\ fn = DelayedIterFunc(input)
    /\ ctor = [name |-> "DelayedIterFunc", panic |-> NoPanic]
    /\ via = "direct"
    /\ out = <<>> /\ res = NoCall /\ calls = 0
    /\ it = NewIter(NoFunc) /\ obs = ObsInit
    /\ last = [op |-> "NewIter", arg |-> NilV, panic |-> NoPanic, ret |-> NilV]
    /\ IterablesIdle

\* the function is called again, until it panics
CallDelayed ==
    /\ res.panic = NoPanic
    /\ calls < MaxLen + MaxExtra
    /\ CalledText(DelayedIterFunc_call(fn))

NextDelayed == CallDelayed

SpecDelayed == InitDelayed /\ [][NextDelayed]_vars

\* the outcome of the n-th of n successive calls of the iterating function f
RECURSIVE Successive(_, _)
Successive(f, n) ==
    IF n = 1 THEN IterFunc_call(f) ELSE Successive(IterFunc_call(f).fn, n - 1)

\* the values that n successive calls of f return with true
RECURSIVE Given(_, _)
Given(f, n) ==
    IF n = 0 THEN <<>>
    ELSE LET r == IterFunc_call(f)
         IN  (IF r.haveIt THEN <<r.val>> ELSE <<>>) \o Given(r.fn, n - 1)

\* C28: DelayedIterFunc does not invoke the generator; the first call of the
\* function it returns invokes it, once, and every call returns what the
\* next call of the function the generator made returns.
C28_DelayedGeneratesOnce ==
    /\ calls = 0 => (fn.invoked = 0 /\ fn.iterFunc = NoFunc)
    /\ calls > 0 => fn.invoked = 1
    /\ (calls > 0 /\ input.makes # NoFunc) =>
          \A r \in {Successive(input.makes, calls)} :
              /\ res = [val |-> r.val, haveIt |-> r.haveIt, panic |-> NoPanic]
              /\ fn.iterFunc = r.fn
              /\ out = Given(input.makes, calls)

\* the function made over a slice of two values was called four times
C28_Witness ==
    /\ input.makes.kind = "ArraySlice" /\ input.makes.num = 2
    /\ calls = 4 /\ Len(out) = 2 /\ fn.invoked = 1 /\ ~res.haveIt

\* ----------------- ChildrenIterFunc, OfChildren (src/iter.go:633-739, 994-999)
\* An item may be a reflect.Value that wraps the value to iterate.
ReflectValue(v) == [kind |-> "reflect.Value", of |-> v]

\* the closure: items, num, idx and iter are its captured variables; orders
\* holds, for an item that is a map, the order in which MapRange visits its keys
ChildrenIterFunc(items, orders) ==
    [kind |-> "Children", items |-> items, orders |-> orders, num |-> Len(items),
     idx |-> 0, iter |-> NoFunc]

\* the iterating function chosen for an item, or the skip of a nil pointer
Children_iterFor(itemVal, order) ==
    IF itemVal.kind = "nil"
    THEN [panic |-> ErrReflectInterfaceZero, skip |-> FALSE, fn |-> NoFunc]
    ELSE IF itemVal.kind \in {"Iter", "nilIter"}
    THEN [panic |-> NoPanic, skip |-> FALSE, fn |-> IterFunc(itemVal)]
    ELSE IF itemVal.kind \in {"array", "slice"}
    THEN [panic |-> NoPanic, skip |-> FALSE, fn |-> ArraySliceIterFunc(itemVal).fn]
    ELSE IF itemVal.kind = "map"
    THEN [panic |-> NoPanic, skip |-> FALSE, fn |-> MapIterFunc(itemVal, order).fn]
    ELSE IF itemVal.kind = "nilptr"
    THEN [panic |-> NoPanic, skip |-> TRUE, fn |-> NoFunc]
    ELSE [panic |-> NoPanic, skip |-> FALSE, fn |-> SingleValueIterFunc(itemVal).fn]

\* the loop "for { ... }" of the function; r is the outcome of iter() when
\* iter != nil
RECURSIVE ChildrenIterFunc_loop(_, _)
RECURSIVE ChildrenIterFunc_next(_, _)
ChildrenIterFunc_got(c, r) ==
    IF r.panic # NoPanic
    THEN [val |-> NilV, haveIt |-> FALSE, panic |-> r.panic,
          fn |-> [c EXCEPT !.iter = r.fn], pool |-> r.pool]
    ELSE IF r.haveIt
    THEN [val |-> r.val, haveIt |-> TRUE, panic |-> NoPanic,
          fn |-> [c EXCEPT !.iter = r.fn], pool |-> r.pool]
    ELSE ChildrenIterFunc_next([c EXCEPT !.iter = NoFunc, !.idx = @ + 1], r.pool)

\* the rest of a round of the loop, with iter = nil
ChildrenIterFunc_next(c, pool) ==
    IF c.idx = c.num
    THEN [val |-> NilV, haveIt |-> FALSE, panic |-> NoPanic, fn |-> c, pool |-> pool]
    ELSE LET item == c.items[c.idx + 1]
             itemVal == IF item.kind = "reflect.Value" THEN item.of ELSE item
             i == Children_iterFor(itemVal, c.orders[c.idx + 1])
         IN  IF i.panic # NoPanic
             THEN [val |-> NilV, haveIt |-> FALSE, panic |-> i.panic, fn |-> c, pool |-> pool]
             ELSE IF i.skip
             THEN ChildrenIterFunc_next([c EXCEPT !.idx = @ + 1], pool)
             ELSE ChildrenIterFunc_loop([c EXCEPT !.iter = i.fn], pool)

ChildrenIterFunc_loop(c, pool) ==
    IF c.iter # NoFunc
    THEN ChildrenIterFunc_got(c, PoolFunc_call(c.iter, pool))
    ELSE ChildrenIterFunc_next(c, pool)

ChildrenIterFunc_call(c, pool) == ChildrenIterFunc_loop(c, pool)

\* OfChildren of src/iter.go:997-999: NewIter(ChildrenIterFunc(items)), which
\* hands the slice of the items to ChildrenIterFunc as its one item
OfChildren(items, orders) == NewIter0(ChildrenIterFunc(<<SliceV(items)>>, <<<<>>>>))

\* OfChildren of src/iter.go:737-739: NewIter(ChildrenIterFunc(items...))
OfChildrenSpread(items, orders) == NewIter0(ChildrenIterFunc(items, orders))

\* The items: item i is a value, a slice of 0 or 2 values, an array of one
\* value, a map of 2 keys, a reflect.Value of a slice, a nil or other pointer,
\* a *Iter that is nil or Of(...) of 0 or 2 values (object i of the pool), or
\* the nil interface.
ChildShapes ==
    {"value", "slice0", "slice2", "array1", "map2", "reflect.Value", "nilptr", "ptr",
     "Iter0", "Iter2", "nilIter", "nil"}

ChildItem(shape, i) ==
    CASE shape = "value" -> IntV(10 * i)
      [] shape = "slice0" -> SliceV(<<>>)
      [] shape = "slice2" -> SliceV(ItemsOf(i, 2))
      [] shape = "array1" -> ArrayV(ItemsOf(i, 1))
      [] shape = "map2" -> MapV([k \in Vals |-> IntV(10 * i + k.n)])
      [] shape = "reflect.Value" -> ReflectValue(SliceV(ItemsOf(i, 1)))
      [] shape = "nilptr" -> NilPtrV
      [] shape = "ptr" -> PtrV(i)
      [] shape \in {"Iter0", "Iter2"} -> IterPtr(i)
      [] shape = "nilIter" -> NilIterPtr
      [] shape = "nil" -> NilV

InitChildren ==
    \E shapes \in SeqsUpTo(ChildShapes, MaxSources),
       name \in {"ChildrenIterFunc", "OfChildren", "OfChildrenSpread"} :
      \E order \in Orders(Vals) :
        LET items == [i \in 1..Len(shapes) |-> ChildItem(shapes[i], i)]
            orders == [i \in 1..Len(shapes) |-> IF shapes[i] = "map2" THEN order ELSE <<>>]
            o == CASE name = "OfChildren" -> OfChildren(items, orders)
                   [] name = "OfChildrenSpread" -> OfChildrenSpread(items, orders)
                   [] OTHER -> NewIter0(ChildrenIterFunc(items, orders))
        IN  /\ input = [items |-> items, orders |-> orders]
            /\ iters = [i \in {k \in 1..Len(shapes) : shapes[k] \in {"Iter0", "Iter2"}} |->
                           NewIter0(Of(ItemsOf(i, IF shapes[i] = "Iter2" THEN 2 ELSE 0)))]
            /\ ctor = [name |-> name, panic |-> NoPanic]
            /\ via = (IF name = "ChildrenIterFunc" THEN "direct" ELSE "Iter")
            /\ fn = o.fn
            /\ it = o.it
            /\ obs = ObsInit
            /\ last = [op |-> "NewIter", arg |-> NilV, panic |-> NoPanic, ret |-> NilV]
            /\ out = <<>>
            /\ res = NoCall
            /\ calls = 0
            /\ iterables = <<>>
            /\ ifn = NoFunc

\* the function ChildrenIterFunc returned is called again, until it panics
CallChildren ==
    /\ via = "direct"
    /\ res.panic = NoPanic
    /\ calls < 2 * Len(input.items) + MaxExtra
    /\ Called(ChildrenIterFunc_call(fn, iters))
    /\ calls' = calls + 1
    /\ UNCHANGED <<it, obs, last, input, ctor, via, iterables, ifn>>

\* Iter.Next of src/iter.go on the Iter OfChildren returned
Iter0_NextChildren(o, pool) ==
    IF ~o.it.iter
    THEN [o |-> o, pool |-> pool, panic |-> ErrNextExhaustedIter, ret |-> FALSE]
    ELSE Iter0_NextGot(o, ChildrenIterFunc_call(o.fn, pool))

\* one round of "for it.Next() { it.Value() }" over the Iter OfChildren returned
ChildrenCycle ==
    /\ via = "Iter"
    /\ calls < 2 * Len(input.items) + MaxExtra
    /\ Cycled(Iter0_NextChildren([it |-> it, fn |-> fn], iters))
    /\ calls' = calls + 1
    /\ UNCHANGED <<obs, last, input, ctor, via, iterables, ifn>>

NextChildren == CallChildren \/ ChildrenCycle

SpecChildren == InitChildren /\ [][NextChildren]_vars

\* the children of the items, in the order of the items
RECURSIVE ChildrenOf(_, _, _)
ChildrenOf(items, orders, i) ==
    IF i > Len(items) THEN <<>>
    ELSE LET item == IF items[i].kind = "reflect.Value" THEN items[i].of ELSE items[i]
             own == CASE item.kind \in {"array", "slice"} -> item.elems
                      [] item.kind = "map" ->
                            [j \in 1..Len(orders[i]) |->
                                KeyValue(orders[i][j], item.m[orders[i][j]])]
                      [] item.kind = "Iter" -> ItemsOf(item.id, Len(iters[item.id].fn.arraySlice.elems))
                      [] item.kind \in {"nilptr", "nilIter"} -> <<>>
                      [] OTHER -> <<item>>
         IN  own \o ChildrenOf(items, orders, i + 1)

\* C29: the Iter of OfChildren(items...) yields, in the order of the items,
\* the elements of each array or slice, the KeyValue pairs of each map, the
\* values of each Iterable and every other item as one value, not
\* recursively; empty collections, empty iterators and nil pointers give
\* nothing; after the last value Next returns false.
C29_OfChildren ==
    ctor.name \in {"OfChildren", "OfChildrenSpread"} =>
        YieldsInOrder(ChildrenOf(input.items, input.orders, 1))

\* what holds of the code: the same for the OfChildren that passes items...
\* on, and for the function of ChildrenIterFunc called directly, when no item
\* is the nil interface
ChildrenWhenSpread ==
    (/\ ctor.name \in {"ChildrenIterFunc", "OfChildrenSpread"}
     /\ \A i \in 1..Len(input.items) : input.items[i] # NilV)
        => YieldsInOrder(ChildrenOf(input.items, input.orders, 1))

\* a value, a slice of two values and an Iter of two values were given to
\* such an OfChildren, whose Iter has yielded the five values and then false
ChildrenYielded ==
    /\ ctor.name = "OfChildrenSpread"
    /\ Len(input.items) = 3
    /\ input.items[1].kind = "int" /\ input.items[2].kind = "slice" /\ input.items[3].kind = "Iter"
    /\ Len(out) = 5 /\ calls = 6 /\ ~it.iter

\* OfChildren of src/iter.go:997-999 was given a value and a slice of two
\* values: its Iter has yielded the value and the slice, and then false
ChildrenNotSpread ==
    /\ ctor.name = "OfChildren"
    /\ Len(input.items) = 2
    /\ out = <<IntV(10), SliceV(ItemsOf(2, 2))>> /\ calls = 3 /\ ~it.iter

\* --------------- SplitIntoColumns, streaming (src/iter.go:407-442)
RECURSIVE Iter0_SplitIntoColumns_fill(_, _, _, _)
RECURSIVE Iter0_SplitIntoColumns_fill_NoWrap(_, _, _, _)
\* Mutant: idx stays at the last group when it has reached it.
Iter0_SplitIntoColumns_fill_NoWrap(o, rows, idx, split) ==
    LET n == Iter0_Next(o)
        v == Iter0_Value(n.o)
    IN  IF n.panic # NoPanic THEN [o |-> n.o, panic |-> n.panic, ret |-> NilV]
        ELSE IF ~n.ret THEN [o |-> n.o, panic |-> NoPanic, ret |-> split]
        ELSE Iter0_SplitIntoColumns_fill_NoWrap(
                 v.o, rows, IF idx + 1 = rows THEN idx ELSE idx + 1,
                 [split EXCEPT ![idx + 1] = Append(@, v.ret)])

\* the second loop: "for idx = 0; it.Next(); { ... }"
Iter0_SplitIntoColumns_fill(o, rows, idx, split) ==
    LET n == Iter0_Next(o)
        v == Iter0_Value(n.o)
    IN  IF n.panic # NoPanic THEN [o |-> n.o, panic |-> n.panic, ret |-> NilV]
        ELSE IF ~n.ret THEN [o |-> n.o, panic |-> NoPanic, ret |-> split]
        ELSE Iter0_SplitIntoColumns_fill(
                 v.o, rows, IF idx + 1 = rows THEN 0 ELSE idx + 1,
                 [split EXCEPT ![idx + 1] = Append(@, v.ret)])

\* the first loop: "for idx = 0; idx < rows; idx++ { ... }"
RECURSIVE Iter0_SplitIntoColumns_start(_, _, _, _)
Iter0_SplitIntoColumns_start(o, rows, idx, split) ==
    IF idx >= rows THEN Iter0_SplitIntoColumns_fill(o, rows, 0, split)
    ELSE LET n == Iter0_Next(o)
             v == Iter0_Value(n.o)
         IN  IF n.panic # NoPanic THEN [o |-> n.o, panic |-> n.panic, ret |-> NilV]
             ELSE IF ~n.ret THEN [o |-> n.o, panic |-> NoPanic, ret |-> split]
             ELSE Iter0_SplitIntoColumns_start(v.o, rows, idx + 1, Append(split, <<v.ret>>))

\* Mutant: with fewer elements than rows, empty groups make up the number.
Iter0_SplitIntoColumns_AllRows(o, rows) ==
    IF rows = 0 THEN [o |-> o, panic |-> ErrRowsGreaterThanZero, ret |-> NilV]
    ELSE LET r == Iter0_SplitIntoColumns_start(o, rows, 0, <<>>)
         IN  IF r.panic # NoPanic THEN r
             ELSE [r EXCEPT !.ret = [g \in 1..rows |-> IF g <= Len(r.ret) THEN r.ret[g] ELSE <<>>]]

Iter0_SplitIntoColumns(o, rows) ==
    IF rows = 0 THEN [o |-> o, panic |-> ErrRowsGreaterThanZero, ret |-> NilV]
    ELSE Iter0_SplitIntoColumns_start(o, rows, 0, <<>>)

\* an Iter of src/iter.go over Of(...) of 0..MaxLen+MaxParam values
InitStreaming ==
    /\ \E n \in 0..(MaxLen + MaxParam) : fn = Of(ItemsOf(1, n))
    /\ it = NewIter0(fn).it
    /\ obs = ObsInit
    /\ last = [op |-> "NewIter", arg |-> NilV, panic |-> NoPanic, ret |-> NilV]
    /\ input = NilV
    /\ ctor = [name |-> "Of", panic |-> NoPanic]
    /\ via = "Iter"
    /\ out = <<>> /\ res = NoCall /\ calls = 0
    /\ IterablesIdle

\* a call on the Iter; r is its outcome
Streamed(op, arg, r) ==
    /\ it' = r.o.it
    /\ fn' = r.o.fn
    /\ last' = [op |-> op, arg |-> arg, panic |-> r.panic, ret |-> r.ret]
    /\ UNCHANGED <<obs, funcVars, iterablesVars>>

DoNext0 == Streamed("Next", NilV, Iter0_Next([it |-> it, fn |-> fn]))

DoValue0 == Streamed("Value", NilV, Iter0_Value([it |-> it, fn |-> fn]))

DoSplitIntoColumns0 ==
    \E rows \in 0..MaxParam :
        Streamed("SplitIntoColumns", IntV(rows), Iter0_SplitIntoColumns([it |-> it, fn |-> fn], rows))

NextStreaming == DoNext0 \/ DoValue0 \/ DoSplitIntoColumns0

SpecStreaming == InitStreaming /\ [][NextStreaming]_vars

\* what the source has left to give
Left == SubSeq(fn.arraySlice.elems, fn.idx + 1, fn.num)

\* C30: the streaming SplitIntoColumns(rows) deals the elements out in turn:
\* the k-th element it drains, counted from 0, is at position k div rows of
\* group k mod rows, and nothing else is in the groups; fewer elements than
\* rows give one group of one element for each.
C30_StreamingRoundRobin ==
    [][(last'.op = "SplitIntoColumns" /\ last'.panic = NoPanic) =>
          LET rows == last'.arg.n
              n == Len(Left)
              split == last'.ret
          IN  /\ Len(split) = Min(rows, n)
              /\ \A k \in 0..(n - 1) :
                    /\ (k % rows) + 1 \in DOMAIN split
                    /\ (k \div rows) + 1 \in DOMAIN split[(k % rows) + 1]
                    /\ split[(k % rows) + 1][(k \div rows) + 1] = Left[k + 1]
              /\ \A g \in 1..Len(split) :
                    Len(split[g]) = Cardinality({k \in 0..(n - 1) : k % rows = g - 1})
              /\ n < rows => \A g \in 1..n : split[g] = <<Left[g]>>
              /\ ~it'.iter]_vars

\* five values were split into two groups: the first, third and fifth, and
\* the second and fourth
C30_Witness ==
    /\ last.op = "SplitIntoColumns" /\ last.arg = IntV(2)
    /\ last.ret = << <<IntV(11), IntV(13), IntV(15)>>, <<IntV(12), IntV(14)>> >>
    /\ ~it.iter

\* ------------------------------------- more claims on the Iter protocol
\* a value is there for the coming Next: in the pushback buffer or in the source
Available == it.iter /\ (Len(it.buffer) > 0 \/ fn.idx < fn.num)

\* the value the coming Next fetches
Coming ==
    IF Len(it.buffer) > 0 THEN it.buffer[Len(it.buffer)] ELSE fn.arraySlice.elems[fn.idx + 1]

\* Next() followed by Value(), as a caller writes them: a panic of Next ends the sequence
NextThenValue(w, n) == IF n.panic # NoPanic THEN [n EXCEPT !.ret = NilV] ELSE Iter_Value(n.w)

\* NextValue leaves the Iter as Next();Value() does, with the same outcome
SameAsNextThenValue(r) ==
    /\ last'.panic = r.panic /\ last'.ret = r.ret
    /\ it' = r.w.it /\ fn' = r.w.fn

\* C31 as stated: NextValue is Next() followed by Value(); with a value
\* available it returns it; with none available it panics with the message of
\* Value on an exhausted iterator and leaves the iterator exhausted.
C31_Original ==
    [][last'.op = "NextValue" =>
         /\ SameAsNextThenValue(NextThenValue(World, Iter_Next(World)))
         /\ Available => (last'.panic = NoPanic /\ last'.ret = Coming)
         /\ ~Available => (last'.panic = ErrValueExhaustedIter /\ ~it'.iter)]_vars

\* C31 amended: NextValue is Next() followed by Value(); with a value
\* available it returns it; with none available it panics and leaves the
\* iterator exhausted, with the message of Value on an exhausted iterator when
\* its Next was the one that returned false, and with the message of Next when
\* the iterator was exhausted already.
C31_NextValueIsNextThenValue ==
    [][last'.op = "NextValue" =>
         /\ SameAsNextThenValue(NextThenValue(World, Iter_Next(World)))
         /\ Available => (last'.panic = NoPanic /\ last'.ret = Coming)
         /\ ~Available => ~it'.iter
         /\ (~Available /\ it.iter) => last'.panic = ErrValueExhaustedIter
         /\ ~it.iter => (last'.panic = ErrNextExhaustedIter /\ it' = it /\ fn' = fn)]_vars

\* NextValue has panicked with the message of Next; the source was read to its end before
C31_Witness ==
    /\ last.op = "NextValue" /\ last.panic = ErrNextExhaustedIter
    /\ ~it.iter /\ fn.num = MaxLen /\ fn.idx = fn.num

\* NextValue has returned the last value of the source
NextValueReturned ==
    /\ last.op = "NextValue" /\ last.panic = NoPanic /\ last.ret = IntV(10 + MaxLen)
    /\ it.iter /\ ~it.nextCalled

\* NextValue has panicked with the message of Value and exhausted the Iter
NextValueExhausted ==
    /\ last.op = "NextValue" /\ last.panic = ErrValueExhaustedIter /\ ~it.iter

\* -------------- IterablesFunc over *Iter objects that are listed twice or
\* -------------- used through another handle (src/iter.go:38-73, 227-262)
\* The list holds nil, a nil *Iter, and pointers to two Iter objects, each any
\* number of times; the Iter objects are Of(...) of 0..MaxShared values.
AliasedSources == {NilIterable, NilIterPtr, IterPtr(1), IterPtr(2)}

InitAliased ==
    /\ iterables \in SeqsUpTo(AliasedSources, MaxSources)
    /\ \E n \in [1..2 -> 0..MaxShared] : iters = [i \in 1..2 |-> NewIter0(Of(ItemsOf(i, n[i])))]
    /\ ifn = IterablesFunc(iterables)
    /\ it = NewIter(NoFunc) /\ fn = NoFunc /\ obs = ObsInit
    /\ last = [op |-> "NewIter", arg |-> NilV, panic |-> NoPanic, ret |-> NilV]
    /\ input = NilV
    /\ ctor = [name |-> "IterablesFunc", panic |-> NoPanic]
    /\ via = "direct"
    /\ out = <<>> /\ res = NoCall /\ calls = 0

\* a call of the function IterablesFunc returned; after a panic nothing follows
CallAliased ==
    /\ res.panic = NoPanic
    /\ calls < 2 * MaxShared + MaxExtra
    /\ LET r == IterablesFunc_call(ifn, iters)
       IN  /\ ifn' = r.c
           /\ iters' = r.pool
           /\ res' = [val |-> r.val, haveIt |-> r.haveIt, panic |-> r.panic]
           /\ out' = IF r.haveIt THEN Append(out, r.val) ELSE out
           /\ last' = [op |-> "IterablesFunc", arg |-> NilV, panic |-> r.panic, ret |-> r.haveIt]
    /\ calls' = calls + 1
    /\ UNCHANGED <<it, fn, obs, input, ctor, via, iterables>>

\* the holder of another handle on one of the Iter objects calls Next or Value on it
Handled(op, id, r) ==
    /\ iters' = [iters EXCEPT ![id] = r.o]
    /\ last' = [op |-> op, arg |-> IntV(id), panic |-> r.panic, ret |-> r.ret]
    /\ UNCHANGED <<it, fn, obs, funcVars, iterables, ifn>>

DoHandleNext ==
    \E id \in DOMAIN iters : res.panic = NoPanic /\ Handled("Next", id, Iter0_Next(iters[id]))

DoHandleValue ==
    \E id \in DOMAIN iters : res.panic = NoPanic /\ Handled("Value", id, Iter0_Value(iters[id]))

NextAliased == CallAliased \/ DoHandleNext \/ DoHandleValue

SpecAliased == InitAliased /\ [][NextAliased]_vars

\* the Iter objects the list names
Listed == {iterables[i].id : i \in {k \in DOMAIN iterables : iterables[k].kind = "Iter"}}

\* C32: IterablesFunc skips every source that has no value left to give and
\* goes on to the next source without failing, also when the source is an
\* *Iter that is already exhausted when it is reached (listed twice, or
\* exhausted through another handle): no call panics, and when a call reports
\* (nil, false) no listed source has a value left.
C32_SkipsSpentSources ==
    /\ [](res.panic = NoPanic)
    /\ [][(calls' > calls /\ ~res'.haveIt) =>
             \A id \in Listed : iters'[id].fn.idx = iters'[id].fn.num]_vars

\* What holds: a call fails only with the panic of Next on an exhausted Iter,
\* raised by the Iter the function holds at that moment.
SpentSourcePanics ==
    res.panic # NoPanic =>
        /\ res.panic = ErrNextExhaustedIter
        /\ ifn.theIter # NoIter /\ ~iters[ifn.theIter].it.iter

\* What holds: with every Iter listed once at most, and none exhausted but
\* those the function has left behind, no call fails and (nil, false) comes
\* when no listed source has a value left.
SkipsWhenUnshared ==
    [][(/\ calls' > calls
        /\ \A i, j \in DOMAIN iterables :
              (iterables[i].kind = "Iter" /\ iterables[i] = iterables[j]) => i = j
        /\ \A id \in DOMAIN iters :
              \/ iters[id].it.iter
              \/ ifn.theIter # id /\ \E i \in 1..ifn.idx : iterables[i] = IterPtr(id)) =>
            /\ res'.panic = NoPanic
            /\ ~res'.haveIt => \A id \in Listed : iters'[id].fn.idx = iters'[id].fn.num]_vars

\* the same Iter is listed twice: the first entry was drained, and Next
\* panicked when the second entry was reached
SameIterTwicePanics ==
    /\ iterables = <<IterPtr(1), IterPtr(1)>>
    /\ out = ItemsOf(1, MaxShared)
    /\ res.panic = ErrNextExhaustedIter
    /\ ifn.idx = 2

\* an Iter exhausted through another handle is reached by the function
SpentByOtherHandlePanics ==
    /\ iterables = <<IterPtr(1), IterPtr(2)>>
    /\ out = ItemsOf(1, MaxShared)
    /\ res.panic = ErrNextExhaustedIter
    /\ ifn.theIter = 2 /\ iters[2].fn.num = 0

\* a value was fetched by a Next that returned true and has not been read
Pending == it.iter /\ it.nextCalled

\* The values the Iter has in store in a state, in the order the coming
\* successful Value calls return them if nothing is pushed back meanwhile: the
\* pending value, the pushback buffer from its top, the rest of the source.
InStore(i, f) ==
    (IF i.iter /\ i.nextCalled THEN <<i.value>> ELSE <<>>)
       \o (IF i.iter THEN Reverse(i.buffer) \o SubSeq(f.arraySlice.elems, f.idx + 1, f.num)
           ELSE <<>>)

IsSuffix(s, t) == Len(s) <= Len(t) /\ s = SubSeq(t, Len(t) - Len(s) + 1, Len(t))

\* C33: Next with the value of the previous successful Next still unread does
\* not panic; it fetches the following element over the pending one, and the
\* skipped element is returned by no later Value (a Value returns the head of
\* what is in store, and what is in store only loses values from its head,
\* but for values pushed back by Unread); if that Next returns false the
\* Iter is exhausted and the unread value cannot be read, Value panics.
C33_NextOverwritesPending ==
    [][\A before \in {InStore(it, fn)} : \A after \in {InStore(it', fn')} :
         /\ (last'.op = "Next" /\ Pending) =>
               /\ last'.panic = NoPanic
               /\ last'.ret <=> Len(before) > 1
               /\ last'.ret => (it'.nextCalled /\ it'.value = Coming /\ after = Tail(before))
               /\ ~last'.ret => /\ ~it'.iter /\ after = <<>>
                                /\ Iter_Value([it |-> it', fn |-> fn', obs |-> obs']).panic
                                      = ErrValueExhaustedIter
         /\ (last'.op \in {"Value", "NextValue"} /\ last'.panic = NoPanic) =>
               /\ last'.ret \in {before[k] : k \in 1..Len(before)}
               /\ last'.op = "Value" => last'.ret = Head(before)
         /\ last'.op # "Unread" => IsSuffix(after, before)
         /\ (last'.op = "Unread" /\ last'.panic = NoPanic) =>
               after = (IF Pending THEN <<it.value>> ELSE <<>>) \o <<last'.arg>>
                          \o SubSeq(before, (IF Pending THEN 2 ELSE 1), Len(before))]_vars

\* Next has returned false while the last value of the source, fetched by the
\* Next before, was still unread
C33_Witness ==
    /\ last.op = "Next" /\ last.panic = NoPanic /\ ~last.ret
    /\ ~it.iter /\ it.nextCalled /\ it.value = IntV(10 + MaxLen)
    /\ fn.num = MaxLen

\* two Next calls in a row, then Value: the first value of the source was
\* skipped and the second one read
SecondReadFirst ==
    /\ last.op = "Value" /\ last.panic = NoPanic /\ last.ret = IntV(12)
    /\ obs.fnCalls = 2 /\ obs.anyNext /\ obs.run = <<>> /\ it.buffer = <<>>
    /\ fn.idx = 2

\* Next with its first two tests in the other order: the pushback buffer is
\* looked at before the test for exhaustion.
Next_BufferFirst(w) ==
    IF Len(w.it.buffer) > 0
    THEN LET l == Len(w.it.buffer)
         IN  [w |-> [w EXCEPT !.it.nextCalled = TRUE,
                              !.it.value = w.it.buffer[l],
                              !.it.buffer = SubSeq(w.it.buffer, 1, l - 1)],
              panic |-> NoPanic, ret |-> TRUE]
    ELSE IF ~w.it.iter
    THEN [w |-> w, panic |-> ErrNextExhaustedIter, ret |-> FALSE]
    ELSE LET r == InvokeIter(w)
         IN  IF r.haveIt
             THEN [w |-> [r.w EXCEPT !.it.nextCalled = TRUE, !.it.value = r.val],
                   panic |-> NoPanic, ret |-> TRUE]
             ELSE [w |-> [r.w EXCEPT !.it.iter = FALSE],
                   panic |-> NoPanic, ret |-> FALSE]

\* C34: in every reachable state an exhausted Iter (function discarded) has an
\* empty pushback buffer, so Next gives the same outcome and leaves the same
\* Iter whether it tests for exhaustion before the buffer, as the code does,
\* or the buffer before exhaustion.
C34_ExhaustedHasEmptyBuffer ==
    /\ ~it.iter => it.buffer = <<>>
    /\ Next_BufferFirst(World) = Iter_Next(World)

\* Unread has been refused on an Iter that was exhausted after values had
\* been pushed back and read again
C34_Witness ==
    /\ last.op = "Unread" /\ last.panic = ErrUnreadExhaustedIter
    /\ ~it.iter /\ it.buffer = <<>>
    /\ it.value \in Vals /\ fn.idx = fn.num

\* the Iter as a step leaves it
WorldAfter == [it |-> it', fn |-> fn', obs |-> obs']

\* Value() returns v, and the Next();Value() that follow return x
ThenReads(w, v, x) ==
    \A first \in {Iter_Value(w)} : \A n \in {Iter_Next(first.w)} : \A second \in {Iter_Value(n.w)} :
        /\ first.panic = NoPanic /\ first.ret = v
        /\ n.panic = NoPanic /\ n.ret
        /\ second.panic = NoPanic /\ second.ret = x

\* C35: Unread(x) on an Iter that is not exhausted changes the pushback buffer
\* only, x going on top: pending value, readable flag and source cursor stay
\* as they are; with a value v fetched by Next and unread, Unread(x); Value()
\* returns v, and the Next(); Value() that follow return x.
C35_UnreadChangesBufferOnly ==
    [][(last'.op = "Unread" /\ it.iter) =>
          /\ last'.panic = NoPanic
          /\ it' = [it EXCEPT !.buffer = Append(@, last'.arg)]
          /\ fn' = fn
          /\ it.nextCalled => ThenReads(WorldAfter, it.value, last'.arg)]_vars

\* after Next and Unread(1), Value has returned the first value of the source
\* and the value pushed back is still in the buffer
C35_Witness ==
    /\ last.op = "Value" /\ last.panic = NoPanic /\ last.ret = IntV(11)
    /\ it.buffer = <<IntV(1)>> /\ obs.run = <<IntV(1)>>
    /\ fn.idx = 1 /\ obs.fnCalls = 1

\* --------------------- ValueOfType (src/unnamed/part_004:439-451)
ErrValueCannotBeNil == "value cannot be nil"
ErrConvertZeroValue == "reflect: call of reflect.Value.Convert on zero Value"
ErrCannotConvert == "reflect.Value.Convert: value of type int cannot be converted to type []int"

Int8V(n) == [kind |-> "int8", n |-> n]

\* reflect.TypeOf(value), for a value that is not nil
TypeOf(value) == value.kind

\* reflect.ValueOf(v).Convert(typ).Interface(): the zero Value of a nil v
\* cannot be converted; an integer converts to an integer type, wrapping
\* around in the width of int8; an integer does not convert to a slice type.
Convert(v, typ) ==
    IF v = NilV THEN [panic |-> ErrConvertZeroValue, ret |-> NilV]
    ELSE IF v.kind \in {"int", "int8"} /\ typ = "int"
    THEN [panic |-> NoPanic, ret |-> IntV(v.n)]
    ELSE IF v.kind \in {"int", "int8"} /\ typ = "int8"
    THEN [panic |-> NoPanic, ret |-> Int8V(((v.n + 128) % 256) - 128)]
    ELSE [panic |-> ErrCannotConvert, ret |-> NilV]

\* Mutant: the value is read before the argument is tested.
Iter_ValueOfType_ReadsFirst(w, value) ==
    LET v == Call_Value(w)
    IN  IF v.panic # NoPanic THEN v
        ELSE IF value = NilV THEN [w |-> v.w, panic |-> ErrValueCannotBeNil, ret |-> NilV]
        ELSE LET c == Convert(v.ret, TypeOf(value))
             IN  [w |-> v.w, panic |-> c.panic, ret |-> c.ret]

Iter_ValueOfType(w, value) ==
    IF value = NilV THEN [w |-> w, panic |-> ErrValueCannotBeNil, ret |-> NilV]
    ELSE LET v == Call_Value(w)
         IN  IF v.panic # NoPanic THEN v
             ELSE LET c == Convert(v.ret, TypeOf(value))
                  IN  [w |-> v.w, panic |-> c.panic, ret |-> c.ret]

\* the values given to ValueOfType, and the values pushed back
Samples == {NilV, IntV(0), Int8V(0), SliceV(<<>>)}
TypedVals == {NilV, IntV(1), IntV(300)}

InitTyped == Init

DoTypedUnread ==
    \E val \in TypedVals :
        /\ Len(it.buffer) < MaxBuffer
        /\ Commit("Unread", val, Call_Unread(World, val))

DoValueOfType ==
    \E value \in Samples : Commit("ValueOfType", value, Iter_ValueOfType(World, value))

NextTyped == DoNext \/ DoValue \/ DoTypedUnread \/ DoValueOfType

SpecTyped == InitTyped /\ [][NextTyped]_vars

\* C36: ValueOfType(nil) panics with "value cannot be nil" before the value
\* is read: the call leaves the Iter as it was, and a value that was pending
\* is still returned by the Value() that follows.
C36_NilTypeLeavesIter ==
    [][(last'.op = "ValueOfType" /\ last'.arg = NilV) =>
          /\ last'.panic = ErrValueCannotBeNil
          /\ it' = it /\ fn' = fn
          /\ Pending => \A v \in {Iter_Value(WorldAfter)} : v.panic = NoPanic /\ v.ret = it.value]_vars

\* ValueOfType(nil) has panicked with a value of the source fetched and unread
C36_Witness ==
    /\ last.op = "ValueOfType" /\ last.arg = NilV /\ last.panic = ErrValueCannotBeNil
    /\ it.iter /\ it.nextCalled /\ it.value = IntV(11)

\* ValueOfType(int8(0)) has converted 300 to int8
ConvertedToInt8 ==
    /\ last.op = "ValueOfType" /\ last.panic = NoPanic /\ last.ret = Int8V(44)
    /\ ~it.nextCalled

\* ------------------- more claims on ReaderToRunesIterFunc (SpecText)
\* a call of the function has reported exhaustion
RunesEnded ==
    ctor.name = "ReaderToRunesIterFunc" /\ calls > 0 /\ ~res.haveIt /\ res.panic = NoPanic

\* the source is at its end and every byte of it was decoded and returned
AllReturned ==
    /\ fn.src.pos = Len(fn.src.data)
    /\ AllEncoded(input)
    /\ out = [i \in 1..Len(input) |-> RuneV(input[i].rune)]

\* C37: the function of ReaderToRunesIterFunc reports exhaustion only when
\* the source is at end-of-stream and every byte of it has been decoded and
\* returned; it never returns hasMore = false while bytes of any value, a
\* zero byte included, are left in the source or in its 4-byte buffer.
C37_ExhaustionOnlyAtEnd == RunesEnded => AllReturned

\* what holds of the code: the same, for a source that fills the slice it is
\* given while it has bytes, and a text without U+0000
ExhaustionOnlyAtEndPlain ==
    (/\ RunesEnded /\ fn.src.most = UTFMax
     /\ \A i \in 1..Len(input) : input[i].rune # 0)
        => AllReturned

\* a zero byte is taken for the end: nothing was returned of U+0000, 'a'
ZeroByteEndsText ==
    /\ RunesEnded /\ fn.src.most = UTFMax
    /\ RunesOf(input) = <<0, 97>>
    /\ out = <<>> /\ calls = 1

\* over a source that gives one byte a Read, the second byte of "aa" is in
\* the buffer, behind zero bytes, when the second call reports exhaustion
ShortReadEndsText ==
    /\ RunesEnded /\ fn.src.most = 1
    /\ RunesOf(input) = <<97, 97>>
    /\ out = <<RuneV(97)>> /\ calls = 2
    /\ fn.buf = <<0, 0, 0, 97>> /\ fn.src.pos = 2

\* ---- ReaderToRunesIterFunc over two sources with the same bytes, one
\* ---- filling the slice each Read, one giving less (part_004:164-203)
\* the most bytes a Read of the second source gives: fewer than the 4 asked for
ShortMosts == 1..(UTFMax - 1)

\* fn is the function over the first source, ifn the one over the second;
\* res and out hold the results of the first, last the result of the second
InitPartition ==
    /\ \E text \in SeqsUpTo(Pieces, MaxRunes), most \in ShortMosts, eofWithLast \in BOOLEAN :
          /\ input = text
          /\ fn = ReaderToRunesIterFunc(ReaderOf(BytesOf(text), UTFMax, eofWithLast, 0))
          /\ ifn = ReaderToRunesIterFunc(ReaderOf(BytesOf(text), most, eofWithLast, 0))
    /\ ctor = [name |-> "ReaderToRunesIterFunc", panic |-> NoPanic]
    /\ via = "direct"
    /\ out = <<>> /\ res = NoCall /\ calls = 0
    /\ last = [op |-> "NewIter", arg |-> NilV, panic |-> NoPanic, ret |-> NilV]
    /\ it = NewIter(NoFunc) /\ obs = ObsInit
    /\ iterables = <<>> /\ iters = <<>>

\* both functions are called, until one of them panics
CalledBoth(r, s) ==
    /\ fn' = r.fn
    /\ res' = [val |-> r.val, haveIt |-> r.haveIt, panic |-> r.panic]
    /\ out' = IF r.haveIt THEN Append(out, r.val) ELSE out
    /\ ifn' = s.fn
    /\ last' = [op |-> "call", arg |-> s.val, panic |-> s.panic, ret |-> s.haveIt]
    /\ calls' = calls + 1
    /\ UNCHANGED <<it, obs, input, ctor, via, iterables, iters>>

CallBoth ==
    /\ res.panic = NoPanic /\ last.panic = NoPanic
    /\ calls < MaxRunes + MaxExtra
    /\ CalledBoth(ReaderToRunesIterFunc_call(fn), ReaderToRunesIterFunc_call(ifn))

NextPartition == CallBoth

SpecPartition == InitPartition /\ [][NextPartition]_vars

\* the latest call gave the same result over both sources
SameResult ==
    res = [val |-> last.arg, haveIt |-> last.ret, panic |-> last.panic]

\* C38: for the same bytes, the results of the function of
\* ReaderToRunesIterFunc (rune, exhaustion or panic) do not depend on how the
\* source deals its bytes out to the Read calls: over a source that fills the
\* slice each Read and over one that gives fewer bytes than asked for, at
\* least one, the results are the same call for call.
C38_ReadPartitionIndependent == calls > 0 => SameResult

\* what holds of the code: the first call gives the same result when the
\* text is empty or the first Read of the second source holds its whole
\* first piece
FirstCallAgrees ==
    (calls = 1 /\ (input = <<>> \/ Len(input[1].bytes) <= ifn.src.most)) => SameResult

\* "aa": the second call returns 'a' over the first source and reports
\* exhaustion over the second
ShortReadsLoseRunes ==
    /\ RunesOf(input) = <<97, 97>>
    /\ calls = 2
    /\ res = [val |-> RuneV(97), haveIt |-> TRUE, panic |-> NoPanic]
    /\ last.panic = NoPanic /\ ~last.ret

\* a two-byte rune whose bytes come in two Reads: a rune over the first
\* source, the panic of an invalid encoding over the second
ShortReadsSplitRune ==
    /\ RunesOf(input) = <<224>>
    /\ calls = 1 /\ ifn.src.most = 1
    /\ res = [val |-> RuneV(224), haveIt |-> TRUE, panic |-> NoPanic]
    /\ last.panic = InvalidUTF8EncodingError

\* ---- the two SplitIntoColumns side by side: the streaming one of
\* ---- src/iter.go:412-442 and the one of src/unnamed/part_004:830-868
\* Two Iters are built on Of(...) of the same values, the older in iters[1],
\* the newer in it and fn, and are given the same calls; last is the outcome
\* of the call on the newer Iter, res the outcome on the older.
InitVariants ==
    /\ \E n \in 0..(MaxLen + MaxParam) :
          /\ fn = Of(ItemsOf(1, n))
          /\ iters = <<NewIter0(Of(ItemsOf(1, n)))>>
    /\ it = NewIter(fn)
    /\ obs = ObsInit
    /\ last = [op |-> "NewIter", arg |-> NilV, panic |-> NoPanic, ret |-> NilV]
    /\ input = NilV
    /\ ctor = [name |-> "Of", panic |-> NoPanic]
    /\ via = "Iter"
    /\ out = <<>> /\ res = NoCall /\ calls = 0
    /\ iterables = <<>> /\ ifn = NoFunc

\* the same call on both Iters: r is its outcome on the newer, s on the older
OnBoth(op, arg, r, s) ==
    /\ it' = r.w.it /\ fn' = r.w.fn /\ obs' = r.w.obs
    /\ last' = [op |-> op, arg |-> arg, panic |-> r.panic, ret |-> r.ret]
    /\ iters' = <<s.o>>
    /\ res' = [val |-> s.ret, haveIt |-> s.panic = NoPanic, panic |-> s.panic]
    /\ UNCHANGED <<input, ctor, via, out, calls, iterables, ifn>>

BothNext == OnBoth("Next", NilV, Call_Next(World), Iter0_Next(iters[1]))

BothValue == OnBoth("Value", NilV, Call_Value(World), Iter0_Value(iters[1]))

BothSplitIntoColumns ==
    \E rows \in 0..MaxParam :
        OnBoth("SplitIntoColumns", IntV(rows),
               Iter_SplitIntoColumns(World, rows), Iter0_SplitIntoColumns(iters[1], rows))

NextVariants == BothNext \/ BothValue \/ BothSplitIntoColumns

SpecVariants == InitVariants /\ [][NextVariants]_vars

\* how many times v occurs in the sequence s
CountIn(s, v) == Cardinality({i \in DOMAIN s : s[i] = v})

\* the groups hold the values of s, each as many times as s does
HoldsAll(groups, s) ==
    \A flat \in {Concat(groups)} :
        /\ Len(flat) = Len(s)
        /\ \A i \in DOMAIN s : CountIn(flat, s[i]) = CountIn(s, s[i])

\* C39: for every number of values and every rows > 0, the streaming
\* SplitIntoColumns and the remainder-dividing one return the same number of
\* groups and groups of the same size at each index, and in both the values of
\* all groups together are the values drained, each as many times; the two
\* differ in which values a group holds only.
C39_VariantsSameShape ==
    [][(last'.op = "SplitIntoColumns" /\ last'.arg.n > 0) =>
          /\ last'.panic = res'.panic
          /\ last'.panic = NoPanic =>
                \A new \in {last'.ret} : \A old \in {res'.val} :
                    /\ Len(new) = Len(old)
                    /\ \A g \in 1..Len(new) : Len(new[g]) = Len(old[g])
                    /\ HoldsAll(new, Left)
                    /\ HoldsAll(old, Left)
                    /\ ~it'.iter /\ ~iters'[1].it.iter]_vars

\* five values and rows = 2: groups of three and two values in both, the
\* streaming one dealt in turn, the other cut from the sequence
C39_Witness ==
    /\ last.op = "SplitIntoColumns" /\ last.arg = IntV(2)
    /\ last.ret = << <<IntV(11), IntV(12), IntV(13)>>, <<IntV(14), IntV(15)>> >>
    /\ res.val = << <<IntV(11), IntV(13), IntV(15)>>, <<IntV(12), IntV(14)>> >>

====
